---- MODULE Spec2Model ----
(***************************************************************************)
(* Model of the audiobook narration core:                                  *)
(*   - the voice grouping pass of process_book and                         *)
(*     stream_audio_from_segments (audio_reader.py),                       *)
(*   - the group synthesis session generate_audio_group_websocket          *)
(*     (audio_reader.py),                                                  *)
(*   - the synthesis loop of process_book with its timing estimator        *)
(*     (audio_reader.py),                                                  *)
(*   - the timing index TimingService (timing_service.py),                 *)
(*   - the segment import of AudiobookMongoService (mongo_service.py).     *)
(* Each part has its own specification over the shared variables.          *)
(***************************************************************************)
EXTENDS Integers, Sequences, FiniteSets, TLC

\* ------------------------------------------------------------------ bounds
MaxSegs == 4
\* longest segments manifest that is grouped

MaxGroup == 3
\* longest group handed to one synthesis session

MaxFrames == 3
\* non-terminal inbound frames read in one session

MaxPayload == 2
\* distinct audio payloads the backend may send

Voices == {"voiceA", "voiceB"}

\* A context identifier as a python value: its type and, for a str, its
\* characters.
StrId(chars) == [type |-> "str", text |-> chars]

ContextIds == { StrId(<<"u", "1">>), StrId(<<" ", "u", "2">>) }
\* identifiers with a non-blank text, as uuid4 makes them

BadContextIds ==
    { [type |-> "NoneType", text |-> <<>>],
      [type |-> "int", text |-> <<"7">>],
      StrId(<<>>),
      StrId(<<" ", " ">>) }
\* None, a number, the empty string, a string of blanks

MaxRecs == 2
\* most records in one timing manifest

MaxIndex == 1
\* greatest segment_index in a timing manifest

MaxStart == 1
\* greatest start_time in a timing manifest

MaxDur == 1
\* greatest duration in a timing manifest

MaxHeader == 3
\* greatest WAV header among the inputs of a concatenation

MaxChunks == 3
\* most inputs of one concatenation

PipeSegs == 2
\* longest book run through the synthesis loop

MaxText == 2
\* longest synthesis text of a segment, in characters

Books == {"b1", "b2"}
\* book ids in the store

ImportBooks == {"b1"}
\* book ids that imports are run for

\* ----------------------------------------------------------------- helpers
RECURSIVE Flatten(_)
Flatten(groups) ==
    IF groups = <<>> THEN <<>>
    ELSE Head(groups) \o Flatten(Tail(groups))

\* python slice xs[start:]: a negative start counts from the end and stops
\* at the first element
SliceFrom(xs, start) ==
    LET from == IF start >= 0 THEN start
                ELSE IF Len(xs) + start >= 0 THEN Len(xs) + start ELSE 0
    IN IF from >= Len(xs) THEN <<>> ELSE SubSeq(xs, from + 1, Len(xs))

\* ------------------------------------------------------------------- state
VARIABLES
    \* voice grouping (process_book / stream_audio_from_segments)
    mode,                 \* which caller runs the grouping
    segments,             \* the loaded segments manifest
    start_index,          \* stream_audio_from_segments argument
    segments_to_process,  \* the list handed to the grouping loop
    grouped_segments,
    current_group,
    gi,                   \* loop variable i of the grouping loop
    gpc                   \* position of the grouping code

groupVars == <<mode, segments, start_index, segments_to_process,
               grouped_segments, current_group, gi, gpc>>

VARIABLES
    \* group synthesis session (generate_audio_group_websocket)
    segments_group,       \* argument: the group to synthesize
    context_id,           \* argument: the group's context identifier
    websocket,            \* "none", "open" or "closed"
    sent,                 \* requests sent on the connection, in order
    si,                   \* loop variable i of the send loop
    all_audio_bytes,      \* accumulated payloads
    nframes,              \* non-terminal frames read so far
    spc,                  \* position of the session code
    wav_bytes,            \* value returned by the session
    failure,              \* the exception the session raised, "none" if none
    frame                 \* the latest inbound message, NoFrame before the first

sessionVars == <<segments_group, context_id, websocket, sent, si,
                 all_audio_bytes, nframes, spc, wav_bytes, failure, frame>>

VARIABLES
    \* the document store and TimingService (timing_service.py)
    timings_collection,   \* db.segment_timings: a set of documents
    books_collection,     \* db.books: book_id -> document
    timing_data,          \* import_timings: the loaded manifest
    import_book,          \* import_timings: its book_id argument
    tpc,                  \* position of import_timings
    ret_count,            \* value returned by import_timings
    old_timings,          \* history: the book's documents when the import began
    old_books,            \* history: db.books when the segments import began
    query                 \* reply of the latest read, made in the current store state

storeVars == <<timings_collection, books_collection, timing_data, import_book,
               tpc, ret_count, old_timings, old_books, query>>

VARIABLES
    \* AudiobookMongoService.import_segments_from_json (mongo_service.py)
    segments_collection,  \* db.segments: a set of documents
    json_segments,        \* the loaded segments.json
    mpc,                  \* position of import_segments_from_json
    old_segments          \* history: the book's segment documents when the import began

segVars == <<segments_collection, json_segments, mpc, old_segments>>

VARIABLES
    \* the synthesis loop of process_book (audio_reader.py)
    has_callback,         \* argument: whether audio_callback was passed
    group_idx,            \* loop variable of the group loop (0-based)
    wav_chunks,           \* local: the audio of the groups, in order
    segment_timings,      \* local: the timing records, in order
    cumulative_time,      \* local: the clock, in ticks
    processed_count,      \* local: segments timed so far
    group_durations,      \* history: measured duration of each timed group, in ticks
    result,               \* the dict process_book returns
    timing_file,          \* segment_timings.json on disk
    final_wav_file,       \* book_continuous.wav on disk
    delivered,            \* the argument of every audio_callback call, in order
    ppc                   \* position of process_book

pipeVars == <<has_callback, group_idx, wav_chunks, segment_timings,
              cumulative_time, processed_count, group_durations, result,
              timing_file, final_wav_file, delivered, ppc>>

VARIABLES
    \* concatenate_wav_files (audio_reader.py)
    cat_chunks,           \* argument wav_chunks
    cat_file,             \* the file at output_path, <<>> while not written
    cat_error,            \* the exception raised, "none" if none
    cpc                   \* position of concatenate_wav_files

concatVars == <<cat_chunks, cat_file, cat_error, cpc>>

VARIABLES
    \* flush_context (audio_reader.py)
    flush_ws,             \* its connection: "none", "open" or "closed"
    flush_sent,           \* the flush requests that were sent
    flush_frames,         \* messages read while waiting for done
    flush_error,          \* the step whose exception was logged, "none" if none
    fpc                   \* position of flush_context

flushVars == <<flush_ws, flush_sent, flush_frames, flush_error, fpc>>

VARIABLES
    \* AudiobookMongoService.delete_book (mongo_service.py)
    delete_target,        \* argument book_id
    deleted_segments,     \* segments_result.deleted_count
    dpc                   \* position of delete_book

deleteVars == <<delete_target, deleted_segments, dpc>>

VARIABLE
    group_context_ids     \* process_book: the context ids made so far, in order

VARIABLES
    \* the retry loop of analyze_text_and_assign_voices_with_gemini
    retry_count,          \* local retry_count
    attempts,             \* history: the outcome of every generate_content call
    waits,                \* history: the wait_time of every time.sleep
    rpc                   \* position of the retry loop

retryVars == <<retry_count, attempts, waits, rpc>>

VARIABLE
    output_path           \* stream_audio_from_segments argument, "None" if not given

streamVars == <<output_path>>

moreVars == <<retryVars, streamVars>>

auxVars == <<group_context_ids, concatVars, flushVars, deleteVars, moreVars>>

vars == <<groupVars, sessionVars, storeVars, segVars, pipeVars, auxVars>>

ConcatIdle ==
    /\ cat_chunks = <<>>
    /\ cat_file = <<>>
    /\ cat_error = "none"
    /\ cpc = "idle"

FlushIdle ==
    /\ flush_ws = "none"
    /\ flush_sent = <<>>
    /\ flush_frames = 0
    /\ flush_error = "none"
    /\ fpc = "idle"

DeleteIdle ==
    /\ delete_target = "b1"
    /\ deleted_segments = 0
    /\ dpc = "idle"

RetryIdle ==
    /\ retry_count = 0
    /\ attempts = <<>>
    /\ waits = <<>>
    /\ rpc = "idle"

StreamIdle == output_path = "None"

MoreIdle == RetryIdle /\ StreamIdle

AuxIdle ==
    /\ group_context_ids = <<>>
    /\ ConcatIdle
    /\ FlushIdle
    /\ DeleteIdle
    /\ MoreIdle

\* --------------------------------------------------- segments manifests
\* A segment of the manifest: its position and its voice.
Segment(k, v) == [seg_id |-> k, voice_id |-> v]

ManifestsOfLen(n) ==
    { [k \in 1..n |-> Segment(k - 1, f[k])] : f \in [1..n -> Voices] }

Manifests == UNION { ManifestsOfLen(n) : n \in 0..MaxSegs }

\* the manifests of the short books that are run through synthesis
StreamManifests == UNION { ManifestsOfLen(n) : n \in 0..PipeSegs }

\* ------------------------------------------------------------ grouping
GroupIdle ==
    /\ mode = "process_book"
    /\ segments = <<>>
    /\ start_index = 0
    /\ segments_to_process = <<>>
    /\ grouped_segments = <<>>
    /\ current_group = <<>>
    /\ gi = 0
    /\ gpc = "idle"

GroupStart ==
    /\ mode \in {"process_book", "stream"}
    /\ segments \in Manifests
    /\ start_index \in (IF mode = "stream" THEN 0..MaxSegs ELSE {0})
    /\ segments_to_process = <<>>
    /\ grouped_segments = <<>>
    /\ current_group = <<>>
    /\ gi = 0
    /\ gpc = "load"

\* stream_audio_from_segments: range check and slice; process_book: the
\* whole list is grouped.
LoadSegments ==
    /\ gpc = "load"
    /\ IF mode = "stream" /\ start_index >= Len(segments)
       THEN /\ gpc' = "error"
            /\ UNCHANGED segments_to_process
       ELSE /\ gpc' = "group"
            /\ segments_to_process' = SliceFrom(segments, start_index)
    /\ UNCHANGED <<mode, segments, start_index, grouped_segments,
                   current_group, gi>>
    /\ UNCHANGED <<sessionVars, storeVars, segVars, pipeVars, auxVars>>

\* grouped_segments = []; if segments: current_group = [segments[0]]
GroupBegin ==
    /\ gpc = "group"
    /\ grouped_segments' = <<>>
    /\ IF segments_to_process # <<>>
       THEN /\ current_group' = <<segments_to_process[1]>>
            /\ gi' = 1
            /\ gpc' = "loop"
       ELSE /\ UNCHANGED <<current_group, gi>>
            /\ gpc' = "grouped"
    /\ UNCHANGED <<mode, segments, start_index, segments_to_process>>
    /\ UNCHANGED <<sessionVars, storeVars, segVars, pipeVars, auxVars>>

\* off by one: compares the segment with itself
GroupIter_sameIndex ==
    /\ gpc = "loop"
    /\ gi < Len(segments_to_process)
    /\ LET segment == segments_to_process[gi + 1]
           prev_segment == segments_to_process[gi + 1]
       IN IF segment.voice_id = prev_segment.voice_id
          THEN /\ current_group' = Append(current_group, segment)
               /\ UNCHANGED grouped_segments
          ELSE /\ grouped_segments' = Append(grouped_segments, current_group)
               /\ current_group' = <<segment>>
    /\ gi' = gi + 1
    /\ UNCHANGED <<mode, segments, start_index, segments_to_process, gpc>>
    /\ UNCHANGED <<sessionVars, storeVars, segVars, pipeVars, auxVars>>

\* one iteration of: for i in range(1, len(segments))
GroupIter ==
    /\ gpc = "loop"
    /\ gi < Len(segments_to_process)
    /\ LET segment == segments_to_process[gi + 1]
           prev_segment == segments_to_process[gi]
       IN IF segment.voice_id = prev_segment.voice_id
          THEN /\ current_group' = Append(current_group, segment)
               /\ UNCHANGED grouped_segments
          ELSE /\ grouped_segments' = Append(grouped_segments, current_group)
               /\ current_group' = <<segment>>
    /\ gi' = gi + 1
    /\ UNCHANGED <<mode, segments, start_index, segments_to_process, gpc>>
    /\ UNCHANGED <<sessionVars, storeVars, segVars, pipeVars, auxVars>>

\* forgets the append after the loop
GroupEnd_dropLast ==
    /\ gpc = "loop"
    /\ gi = Len(segments_to_process)
    /\ gpc' = "grouped"
    /\ UNCHANGED <<mode, segments, start_index, segments_to_process,
                   grouped_segments, current_group, gi>>
    /\ UNCHANGED <<sessionVars, storeVars, segVars, pipeVars, auxVars>>

\* after the loop: grouped_segments.append(current_group)
GroupEnd ==
    /\ gpc = "loop"
    /\ gi = Len(segments_to_process)
    /\ grouped_segments' = Append(grouped_segments, current_group)
    /\ gpc' = "grouped"
    /\ UNCHANGED <<mode, segments, start_index, segments_to_process,
                   current_group, gi>>
    /\ UNCHANGED <<sessionVars, storeVars, segVars, pipeVars, auxVars>>

GroupNext ==
    \/ LoadSegments
    \/ GroupBegin
    \/ GroupIter
    \/ GroupEnd

\* C1: when grouping has finished, the groups concatenated in group order
\* are exactly the list that was grouped (every segment in exactly one group,
\* order unchanged) and no group is empty.
C1_GroupsPartitionInput ==
    gpc = "grouped" =>
        /\ Flatten(grouped_segments) = segments_to_process
        /\ \A k \in 1..Len(grouped_segments) : grouped_segments[k] # <<>>

C1_Witness ==
    /\ gpc = "grouped"
    /\ Len(grouped_segments) >= 2
    /\ \E k \in 1..Len(grouped_segments) : Len(grouped_segments[k]) >= 2

\* C2: when grouping has finished, every group holds segments of one voice
\* only, and two adjacent groups never have the same voice.
C2_GroupsHomogeneousMaximal ==
    gpc = "grouped" =>
        /\ \A k \in 1..Len(grouped_segments) :
              \A a, b \in 1..Len(grouped_segments[k]) :
                 grouped_segments[k][a].voice_id = grouped_segments[k][b].voice_id
        /\ \A k \in 1..(Len(grouped_segments) - 1) :
              grouped_segments[k][1].voice_id # grouped_segments[k + 1][1].voice_id

C2_Witness ==
    /\ gpc = "grouped"
    /\ Len(grouped_segments) >= 3
    /\ \E k \in 1..Len(grouped_segments) : Len(grouped_segments[k]) >= 2

\* ------------------------------------------- group synthesis session
\* Groups as the callers build them: one voice, consecutive segments.
GroupsOfLen(n) ==
    { [k \in 1..n |-> Segment(k - 1, v)] : v \in Voices }

SessionGroups == UNION { GroupsOfLen(n) : n \in 0..MaxGroup }

\* Inbound websocket messages.  A binary message carries a payload; a text
\* message is JSON with a "type" and, for chunks, a "data" field.
Payloads == 1..MaxPayload

DataFrames ==
    { [kind |-> "binary", data |-> p] : p \in Payloads }
    \cup { [kind |-> "chunk", data |-> p] : p \in Payloads }

OtherFrames ==
    { [kind |-> "chunk_nodata", data |-> 0],
      [kind |-> "chunk_baddata", data |-> 0],
      [kind |-> "timestamps", data |-> 0] }

TerminalFrames ==
    { [kind |-> "done", data |-> 0],
      [kind |-> "error", data |-> 0],
      [kind |-> "closed_ok", data |-> 0],
      [kind |-> "closed_error", data |-> 0] }

NoFrame == [kind |-> "none", data |-> 0]

SessionIdle ==
    /\ segments_group = <<>>
    /\ context_id = StrId(<<"u", "1">>)
    /\ websocket = "none"
    /\ sent = <<>>
    /\ si = 0
    /\ all_audio_bytes = <<>>
    /\ nframes = 0
    /\ spc = "idle"
    /\ wav_bytes = <<>>
    /\ failure = "none"
    /\ frame = NoFrame

SessionStart ==
    /\ segments_group \in SessionGroups
    /\ context_id \in ContextIds \cup BadContextIds
    /\ websocket = "none"
    /\ sent = <<>>
    /\ si = 0
    /\ all_audio_bytes = <<>>
    /\ nframes = 0
    /\ spc = "start"
    /\ wav_bytes = <<>>
    /\ failure = "none"
    /\ frame = NoFrame

\* continue is false for the first request and true afterwards
Request_continueAfterFirst(i) ==
    [ voice      |-> segments_group[1].voice_id,
      transcript |-> segments_group[i + 1].seg_id,
      context_id |-> context_id,
      continue   |-> (i > 0) ]

\* never marks the last request
Request_alwaysContinue(i) ==
    [ voice      |-> segments_group[1].voice_id,
      transcript |-> segments_group[i + 1].seg_id,
      context_id |-> context_id,
      continue   |-> TRUE ]

\* the request built for segment i (0-based) of the group
Request(i) ==
    LET is_last == (i = Len(segments_group) - 1)
    IN [ voice      |-> segments_group[1].voice_id,
         transcript |-> segments_group[i + 1].seg_id,
         context_id |-> context_id,
         continue   |-> ~is_last ]

\* if not segments_group: raise ValueError; websockets.connect(ws_url)
Connect ==
    /\ spc = "start"
    /\ IF segments_group = <<>>
       THEN /\ spc' = "raised"
            /\ failure' = "empty_group"
            /\ UNCHANGED websocket
       ELSE \/ /\ websocket' = "open"
               /\ spc' = "send"
               /\ UNCHANGED failure
            \/ /\ spc' = "raised"
               /\ failure' = "connect_failed"
               /\ UNCHANGED websocket
    /\ UNCHANGED <<segments_group, context_id, sent, si, all_audio_bytes,
                   nframes, wav_bytes, frame>>
    /\ UNCHANGED <<groupVars, storeVars, segVars, pipeVars, auxVars>>

\* the receive loop starts after the first request
SendRequest_readsEarly ==
    /\ spc = "send"
    /\ si < Len(segments_group)
    /\ sent' = Append(sent, Request(si))
    /\ si' = si + 1
    /\ spc' = "recv"
    /\ UNCHANGED <<segments_group, context_id, websocket, all_audio_bytes,
                   nframes, wav_bytes, failure, frame>>
    /\ UNCHANGED <<groupVars, storeVars, segVars, pipeVars, auxVars>>

\* one iteration of the send loop: await websocket.send(json.dumps(request))
SendRequest ==
    /\ spc = "send"
    /\ si < Len(segments_group)
    /\ sent' = Append(sent, Request(si))
    /\ si' = si + 1
    /\ spc' = IF si + 1 = Len(segments_group) THEN "recv" ELSE "send"
    /\ UNCHANGED <<segments_group, context_id, websocket, all_audio_bytes,
                   nframes, wav_bytes, failure, frame>>
    /\ UNCHANGED <<groupVars, storeVars, segVars, pipeVars, auxVars>>

\* websocket.send raises: the async with block closes the connection and
\* the exception is re-raised
SendFails ==
    /\ spc = "send"
    /\ si < Len(segments_group)
    /\ websocket' = "closed"
    /\ spc' = "raised"
    /\ failure' = "send_failed"
    /\ UNCHANGED <<segments_group, context_id, sent, si, all_audio_bytes,
                   nframes, wav_bytes, frame>>
    /\ UNCHANGED <<groupVars, storeVars, segVars, pipeVars, auxVars>>

\* the payload is put in front of the buffer
RecvAudio_prepends ==
    /\ spc = "recv"
    /\ nframes < MaxFrames
    /\ \E f \in DataFrames :
          /\ frame' = f
          /\ all_audio_bytes' = <<f.data>> \o all_audio_bytes
    /\ nframes' = nframes + 1
    /\ UNCHANGED <<segments_group, context_id, websocket, sent, si, spc,
                   wav_bytes, failure>>
    /\ UNCHANGED <<groupVars, storeVars, segVars, pipeVars, auxVars>>

\* one iteration of: async for message in websocket, for an audio message
RecvAudio ==
    /\ spc = "recv"
    /\ nframes < MaxFrames
    /\ \E f \in DataFrames :
          /\ frame' = f
          /\ all_audio_bytes' = Append(all_audio_bytes, f.data)
    /\ nframes' = nframes + 1
    /\ UNCHANGED <<segments_group, context_id, websocket, sent, si, spc,
                   wav_bytes, failure>>
    /\ UNCHANGED <<groupVars, storeVars, segVars, pipeVars, auxVars>>

\* the data field of the message is appended whatever the message is
RecvIgnored_appends ==
    /\ spc = "recv"
    /\ nframes < MaxFrames
    /\ \E f \in OtherFrames :
          /\ frame' = f
          /\ nframes' = nframes + 1
          /\ all_audio_bytes' = Append(all_audio_bytes, f.data)
    /\ UNCHANGED <<segments_group, context_id, websocket, sent, si,
                   spc, wav_bytes, failure>>
    /\ UNCHANGED <<groupVars, storeVars, segVars, pipeVars, auxVars>>

\* a chunk without data, a chunk whose data does not decode, or a message
\* of another type: nothing is appended
RecvIgnored ==
    /\ spc = "recv"
    /\ nframes < MaxFrames
    /\ \E f \in OtherFrames :
          /\ frame' = f
          /\ nframes' = nframes + 1
    /\ UNCHANGED <<segments_group, context_id, websocket, sent, si,
                   all_audio_bytes, spc, wav_bytes, failure>>
    /\ UNCHANGED <<groupVars, storeVars, segVars, pipeVars, auxVars>>

\* done does not leave the receive loop
RecvDone_keepsReading ==
    /\ spc = "recv"
    /\ \E f \in { t \in TerminalFrames : t.kind \in {"done", "closed_ok"} } :
          /\ frame' = f
          /\ IF f.kind = "done"
             THEN UNCHANGED <<websocket, spc>>
             ELSE /\ websocket' = "closed"
                  /\ spc' = "wrap"
    /\ UNCHANGED <<segments_group, context_id, sent, si, all_audio_bytes,
                   nframes, wav_bytes, failure>>
    /\ UNCHANGED <<groupVars, storeVars, segVars, pipeVars, auxVars>>

\* type "done": break; the stream ending without done also leaves the loop
RecvDone ==
    /\ spc = "recv"
    /\ \E f \in { t \in TerminalFrames : t.kind \in {"done", "closed_ok"} } :
          /\ frame' = f
          /\ websocket' = "closed"
          /\ spc' = "wrap"
    /\ UNCHANGED <<segments_group, context_id, sent, si, all_audio_bytes,
                   nframes, wav_bytes, failure>>
    /\ UNCHANGED <<groupVars, storeVars, segVars, pipeVars, auxVars>>

\* type "error": raise ValueError; a dropped connection raises as well
RecvError ==
    /\ spc = "recv"
    /\ \E f \in { t \in TerminalFrames : t.kind \in {"error", "closed_error"} } :
          /\ frame' = f
          /\ websocket' = "closed"
          /\ spc' = "raised"
          /\ failure' = IF f.kind = "error" THEN "backend_error"
                        ELSE "connection_lost"
    /\ UNCHANGED <<segments_group, context_id, sent, si, all_audio_bytes,
                   nframes, wav_bytes>>
    /\ UNCHANGED <<groupVars, storeVars, segVars, pipeVars, auxVars>>

\* if not all_audio_bytes: return b""; else wrap the samples as WAV
WrapAudio ==
    /\ spc = "wrap"
    /\ wav_bytes' = IF all_audio_bytes = <<>> THEN <<>>
                    ELSE <<0>> \o all_audio_bytes
    /\ spc' = "returned"
    /\ UNCHANGED <<segments_group, context_id, websocket, sent, si,
                   all_audio_bytes, nframes, failure, frame>>
    /\ UNCHANGED <<groupVars, storeVars, segVars, pipeVars, auxVars>>

\* cancellation leaves the connection as it is
Cancelled_leavesOpen ==
    /\ spc \in {"start", "send", "recv"}
    /\ spc' = "cancelled"
    /\ failure' = "cancelled"
    /\ UNCHANGED <<segments_group, context_id, websocket, sent, si,
                   all_audio_bytes, nframes, wav_bytes, frame>>
    /\ UNCHANGED <<groupVars, storeVars, segVars, pipeVars, auxVars>>

\* the task running the session is cancelled while it waits: CancelledError
\* is raised at the await; inside the async with block the connection is
\* closed on the way out, and except Exception does not catch it
Cancelled ==
    /\ spc \in {"start", "send", "recv"}
    /\ websocket' = IF websocket = "open" THEN "closed" ELSE websocket
    /\ spc' = "cancelled"
    /\ failure' = "cancelled"
    /\ UNCHANGED <<segments_group, context_id, sent, si, all_audio_bytes,
                   nframes, wav_bytes, frame>>
    /\ UNCHANGED <<groupVars, storeVars, segVars, pipeVars, auxVars>>

SessionNext ==
    \/ Connect
    \/ SendRequest
    \/ SendFails
    \/ RecvAudio
    \/ RecvIgnored
    \/ RecvDone
    \/ RecvError
    \/ WrapAudio
    \/ Cancelled

C4_EndOfInputOnLastOnly ==
    /\ \A k \in 1..Len(sent) :
          (sent[k].continue = FALSE) <=> (k = Len(segments_group))
    /\ spc \in {"recv", "wrap", "returned"} =>
          /\ Len(sent) = Len(segments_group)
          /\ sent[Len(sent)].continue = FALSE

C4_Witness ==
    /\ spc = "returned"
    /\ Len(segments_group) >= 2
    /\ sent[Len(sent)].continue = FALSE

\* C19: on every way out of group synthesis (the receive loop left after
\* done or a clean close, an error frame, a failed send, a lost connection,
\* a cancellation) no connection is open, and a connection that was opened
\* is closed.
C19_ConnectionClosedOnExit ==
    spc \in {"wrap", "returned", "raised", "cancelled"} =>
        /\ websocket \in {"none", "closed"}
        /\ (sent # <<>> => websocket = "closed")

C19_Witness ==
    /\ spc = "cancelled"
    /\ websocket = "closed"
    /\ sent # <<>>
    /\ all_audio_bytes # <<>>

\* strip() of a string given by its characters
RECURSIVE LStrip(_)
LStrip(cs) ==
    IF cs # <<>> /\ Head(cs) = " " THEN LStrip(Tail(cs)) ELSE cs

RECURSIVE RStrip(_)
RStrip(cs) ==
    IF cs # <<>> /\ cs[Len(cs)] = " "
    THEN RStrip(SubSeq(cs, 1, Len(cs) - 1))
    ELSE cs

Strip(cs) == RStrip(LStrip(cs))

\* python truth value of an identifier
Truthy(c) ==
    CASE c.type = "NoneType" -> FALSE
      [] c.type = "str" -> c.text # <<>>
      [] OTHER -> TRUE

\* the check of generate_audio_websocket and generate_audio_websocket_stream:
\* not (not context_id or not isinstance(context_id, str)
\*      or len(context_id.strip()) == 0)
ValidContextId(c) ==
    ~ (~Truthy(c) \/ c.type # "str" \/ Len(Strip(c.text)) = 0)

\* C20: group synthesis called with a context identifier that is None, not
\* a string, empty or blank raises before it opens a connection or sends a
\* request.
C20_InvalidContextIdFailsFast ==
    (~ValidContextId(context_id) /\ spc # "start") =>
        /\ spc \in {"raised", "cancelled"}
        /\ websocket = "none"
        /\ sent = <<>>

\* C21: group synthesis that accumulated no audio payload does not return:
\* whenever it has returned, the returned buffer is not empty.
C21_EmptyAudioRaises ==
    spc = "returned" => wav_bytes # <<>>

\* C22: group synthesis returns audio only when the receive loop was left
\* by a done frame.
C22_AudioOnlyAfterDone ==
    (spc = "returned" /\ wav_bytes # <<>>) => frame.kind = "done"

\* C28: once a done frame has been read, no further message is read, nothing
\* is appended to the audio buffer and no request is sent.
C28_DoneIsTerminal ==
    [][frame.kind = "done" =>
          /\ frame' = frame
          /\ nframes' = nframes
          /\ all_audio_bytes' = all_audio_bytes
          /\ sent' = sent]_vars

C28_Witness ==
    /\ frame.kind = "done"
    /\ spc = "returned"
    /\ all_audio_bytes # <<>>
    /\ nframes < MaxFrames

IgnoredKinds == {"chunk_nodata", "chunk_baddata", "timestamps"}

\* C29: reading a message that is a chunk without usable data or has a type
\* other than chunk, done, error leaves the audio buffer, the requests sent,
\* the connection and the position in the receive loop as they were.
C29_OtherFramesIgnored ==
    [][(nframes' # nframes /\ frame'.kind \in IgnoredKinds) =>
          /\ all_audio_bytes' = all_audio_bytes
          /\ sent' = sent
          /\ websocket' = websocket
          /\ failure' = failure
          /\ wav_bytes' = wav_bytes
          /\ spc = "recv"
          /\ spc' = "recv"]_vars

C29_Witness ==
    /\ frame.kind = "timestamps"
    /\ spc = "recv"
    /\ all_audio_bytes # <<>>

\* C36: the requests sent are the group's segments in order, one each; when
\* a message has been read or the receive loop has been entered, all N
\* have been sent; no request is sent from then on.
C36_AllSentBeforeFirstRead ==
    /\ [](/\ Len(sent) <= Len(segments_group)
          /\ \A k \in 1..Len(sent) :
                sent[k].transcript = segments_group[k].seg_id
          /\ (frame # NoFrame \/ nframes > 0
                 \/ spc \in {"recv", "wrap", "returned"}) =>
                Len(sent) = Len(segments_group))
    /\ [][(spc = "recv" \/ frame # NoFrame) => sent' = sent]_vars

C36_Witness ==
    /\ frame.kind = "binary"
    /\ Len(sent) = 3
    /\ spc = "recv"

AudioKinds == {"binary", "chunk"}

\* C37: the buffer is empty when the receive loop starts; reading a binary
\* message or a chunk with decodable data appends its payload at the end;
\* nothing else changes the buffer; the WAV returned holds the buffer.
C37_BufferIsPayloadsInOrder ==
    /\ []((spc \in {"start", "send"} \/ (spc = "recv" /\ nframes = 0)) =>
             all_audio_bytes = <<>>)
    /\ []((spc = "returned" /\ wav_bytes # <<>>) =>
             Tail(wav_bytes) = all_audio_bytes)
    /\ [][IF nframes' = nframes + 1 /\ frame'.kind \in AudioKinds
          THEN all_audio_bytes' = Append(all_audio_bytes, frame'.data)
          ELSE all_audio_bytes' = all_audio_bytes]_vars

C37_Witness ==
    /\ spc = "returned"
    /\ nframes = 3
    /\ Len(all_audio_bytes) = 2
    /\ all_audio_bytes[1] # all_audio_bytes[2]
    /\ Tail(wav_bytes) = all_audio_bytes

\* ------------------------------------------------------ flush_context
\* flush_context(context_id) is called for the context of a group whose
\* synthesis has returned
FlushCall ==
    /\ fpc = "idle"
    /\ spc = "returned"
    /\ fpc' = "connect"
    /\ UNCHANGED <<flush_ws, flush_sent, flush_frames, flush_error>>
    /\ UNCHANGED <<groupVars, sessionVars, storeVars, segVars, pipeVars>>
    /\ UNCHANGED <<group_context_ids, concatVars, deleteVars, moreVars>>

\* async with websockets.connect(ws_url) as websocket
FlushConnect ==
    /\ fpc = "connect"
    /\ flush_ws' = "open"
    /\ fpc' = "send"
    /\ UNCHANGED <<flush_sent, flush_frames, flush_error>>
    /\ UNCHANGED <<groupVars, sessionVars, storeVars, segVars, pipeVars>>
    /\ UNCHANGED <<group_context_ids, concatVars, deleteVars, moreVars>>

\* await websocket.send(json.dumps(flush_request))
FlushSend ==
    /\ fpc = "send"
    /\ flush_sent' = Append(flush_sent, [context_id |-> context_id, flush |-> TRUE])
    /\ fpc' = "wait"
    /\ UNCHANGED <<flush_ws, flush_frames, flush_error>>
    /\ UNCHANGED <<groupVars, sessionVars, storeVars, segVars, pipeVars>>
    /\ UNCHANGED <<group_context_ids, concatVars, deleteVars, moreVars>>

\* a message that is not a done message: the loop reads on
FlushRecvOther ==
    /\ fpc = "wait"
    /\ flush_frames < MaxFrames
    /\ flush_frames' = flush_frames + 1
    /\ UNCHANGED <<flush_ws, flush_sent, flush_error, fpc>>
    /\ UNCHANGED <<groupVars, sessionVars, storeVars, segVars, pipeVars>>
    /\ UNCHANGED <<group_context_ids, concatVars, deleteVars, moreVars>>

\* a done message (break), or the server closes the connection normally
\* and the iteration ends
FlushDone ==
    /\ fpc = "wait"
    /\ flush_ws' = "closed"
    /\ fpc' = "returned"
    /\ UNCHANGED <<flush_sent, flush_frames, flush_error>>
    /\ UNCHANGED <<groupVars, sessionVars, storeVars, segVars, pipeVars>>
    /\ UNCHANGED <<group_context_ids, concatVars, deleteVars, moreVars>>

\* the exception leaves flush_context
FlushFails_raises ==
    /\ fpc \in {"connect", "send", "wait"}
    /\ flush_error' = fpc
    /\ flush_ws' = IF flush_ws = "open" THEN "closed" ELSE flush_ws
    /\ fpc' = "raised"
    /\ UNCHANGED <<flush_sent, flush_frames>>
    /\ UNCHANGED <<groupVars, sessionVars, storeVars, segVars, pipeVars>>
    /\ UNCHANGED <<group_context_ids, concatVars, deleteVars, moreVars>>

\* the connect, the send or a read raises an Exception: the connection, if
\* open, is closed by the async with; except Exception logs a warning
FlushFails ==
    /\ fpc \in {"connect", "send", "wait"}
    /\ flush_error' = fpc
    /\ flush_ws' = IF flush_ws = "open" THEN "closed" ELSE flush_ws
    /\ fpc' = "returned"
    /\ UNCHANGED <<flush_sent, flush_frames>>
    /\ UNCHANGED <<groupVars, sessionVars, storeVars, segVars, pipeVars>>
    /\ UNCHANGED <<group_context_ids, concatVars, deleteVars, moreVars>>

FlushNext ==
    \/ Connect
    \/ SendRequest
    \/ SendFails
    \/ RecvAudio
    \/ RecvIgnored
    \/ RecvDone
    \/ RecvError
    \/ WrapAudio
    \/ Cancelled
    \/ FlushCall
    \/ FlushConnect
    \/ FlushSend
    \/ FlushRecvOther
    \/ FlushDone
    \/ FlushFails

\* C30: flush_context never raises: a failure of its connect, its send or
\* its wait for done ends in a normal return with the connection closed;
\* no step of it changes the audio the group synthesis returned, its failure
\* or its position.
C30_FlushNeverFails ==
    /\ [](/\ fpc # "raised"
          /\ flush_error # "none" => fpc = "returned"
          /\ fpc = "returned" => flush_ws # "open")
    /\ [][fpc' # fpc =>
             /\ wav_bytes' = wav_bytes
             /\ failure' = failure
             /\ spc' = spc
             /\ spc = "returned"]_vars

C30_Witness ==
    /\ fpc = "returned"
    /\ flush_error = "wait"
    /\ flush_frames > 0
    /\ wav_bytes # <<>>
    /\ flush_sent = <<[context_id |-> context_id, flush |-> TRUE]>>

\* ------------------------------------------------------- timing index
\* A TimingRecord of a timing manifest (no book_id yet).
TimingRec(i, st, du) ==
    [ segment_index |-> i,
      speaker       |-> "narrator",
      text          |-> IF i = 0 THEN "the wolf" ELSE "a pig",
      start_time    |-> st,
      duration      |-> du,
      end_time      |-> st + du ]

TimingRecs ==
    { TimingRec(i, st, du) : i \in 0..MaxIndex, st \in 0..MaxStart, du \in 0..MaxDur }

\* record lists in any order: every segment_index at most once, or one
\* record listed twice
RecLists ==
    { recs \in UNION { [1..n -> TimingRecs] : n \in 0..MaxRecs } :
         \A j, k \in 1..Len(recs) :
            j # k => recs[j].segment_index # recs[k].segment_index }
    \cup { <<r, r>> : r \in TimingRecs }

\* segment_timings.json as process_book writes it: total_duration is the
\* end_time of the last record, 0 for no records
TimingManifest(recs) ==
    [ total_duration |-> IF recs = <<>> THEN 0 ELSE recs[Len(recs)].end_time,
      total_segments |-> Len(recs),
      segments       |-> recs ]

TimingManifests == { TimingManifest(recs) : recs \in RecLists }

\* the records process_book writes for segments of the given durations:
\* segment_index counts from 0, each start_time is the previous end_time
RECURSIVE SumTo(_, _)
SumTo(durs, k) == IF k = 0 THEN 0 ELSE durs[k] + SumTo(durs, k - 1)

PipelineRecs(durs) ==
    [ k \in 1..Len(durs) |-> TimingRec(k - 1, SumTo(durs, k - 1), durs[k]) ]

DurLists == UNION { [1..n -> 0..MaxDur] : n \in 0..MaxRecs }

PipelineManifests == { TimingManifest(PipelineRecs(durs)) : durs \in DurLists }

\* dict.get(key, default)
Get(d, key, default) == IF key \in DOMAIN d THEN d[key] ELSE default

\* speaker and text exchanged
TimingDoc_swapsSpeakerText(book_id, segment) ==
    [ book_id       |-> book_id,
      segment_index |-> segment["segment_index"],
      speaker       |-> Get(segment, "text", ""),
      text          |-> Get(segment, "speaker", "unknown"),
      start_time    |-> segment["start_time"],
      duration      |-> segment["duration"],
      end_time      |-> segment["end_time"] ]

\* the document import_timings builds for one manifest segment
TimingDoc(book_id, segment) ==
    [ book_id       |-> book_id,
      segment_index |-> segment["segment_index"],
      speaker       |-> Get(segment, "speaker", "unknown"),
      text          |-> Get(segment, "text", ""),
      start_time    |-> segment["start_time"],
      duration      |-> segment["duration"],
      end_time      |-> segment["end_time"] ]

TimingDocs(book_id, segs) ==
    [ k \in 1..Len(segs) |-> TimingDoc(book_id, segs[k]) ]

\* collection.find({"book_id": book_id})
FindBook(coll, book_id) == { d \in coll : d.book_id = book_id }

\* deletes nothing
DeleteMany_none(coll, book_id) == coll

\* the filter is dropped: every book's documents are deleted
DeleteMany_all(coll, book_id) == {}

\* collection.delete_many({"book_id": book_id})

DeleteMany(coll, book_id) == { d \in coll : d.book_id # book_id }

\* unique index on (book_id, segment_index)
DuplicateKey(coll, doc) ==
    \E d \in coll : d.book_id = doc.book_id /\ d.segment_index = doc.segment_index

\* collection.insert_many(docs): ordered; stops at the first duplicate key
\* and raises, the documents before it stay inserted
RECURSIVE InsertMany(_, _)
InsertMany(coll, docs) ==
    IF docs = <<>> THEN [coll |-> coll, ok |-> TRUE]
    ELSE IF DuplicateKey(coll, Head(docs)) THEN [coll |-> coll, ok |-> FALSE]
    ELSE InsertMany(coll \cup {Head(docs)}, Tail(docs))

\* cursor.sort("segment_index", ASCENDING)
RECURSIVE SortBySegmentIndex(_)
SortBySegmentIndex(docs) ==
    IF docs = {} THEN <<>>
    ELSE LET first == CHOOSE d \in docs :
                         \A e \in docs : d.segment_index <= e.segment_index
         IN <<first>> \o SortBySegmentIndex(docs \ {first})

\* a document of db.books; the duration field exists once it was set
NoBook == [exists |-> FALSE, total_segments |-> 0, has_duration |-> FALSE,
           duration |-> 0]

\* the document of a book that was imported with n segments
BookDoc(n) == [exists |-> TRUE, total_segments |-> n, has_duration |-> FALSE,
               duration |-> 0]

\* books_collection.update_one({"book_id": b}, {"$set": {"duration": v}})
SetDuration(books, book_id, v) ==
    IF books[book_id].exists
    THEN [books EXCEPT ![book_id].has_duration = TRUE,
                       ![book_id].duration = v]
    ELSE books

NoQuery == [op |-> "none", book_id |-> "b1", arg |-> 0, docs |-> <<>>, num |-> 0]

\* another book's timing set, present before any import of this model
OtherBookDocs == { TimingDoc("b2", TimingRec(0, 0, 1)) }

StoreIdle ==
    /\ timings_collection = {}
    /\ books_collection = [b \in Books |-> NoBook]
    /\ timing_data = TimingManifest(<<>>)
    /\ import_book = "b1"
    /\ tpc = "idle"
    /\ ret_count = 0
    /\ old_timings = {}
    /\ old_books = [b \in Books |-> NoBook]
    /\ query = NoQuery

StoreStart ==
    /\ timings_collection = OtherBookDocs
    /\ \E d \in {NoBook, BookDoc(1)} :
          books_collection = [b \in Books |-> IF b \in ImportBooks THEN d ELSE NoBook]
    /\ timing_data = TimingManifest(<<>>)
    /\ import_book = "b1"
    /\ tpc = "idle"
    /\ ret_count = 0
    /\ old_timings = {}
    /\ old_books = books_collection
    /\ query = NoQuery

\* import_timings is entered with a manifest of universe U: the file is
\* loaded, segments and total_duration are read
ImportEnter(U) ==
    /\ \E b \in ImportBooks, m \in U :
          /\ import_book' = b
          /\ timing_data' = m
          /\ old_timings' = FindBook(timings_collection, b)
    /\ tpc' = "delete"
    /\ ret_count' = 0
    /\ query' = NoQuery
    /\ UNCHANGED <<timings_collection, books_collection, old_books>>
    /\ UNCHANGED <<groupVars, sessionVars, segVars, pipeVars, auxVars>>

\* an import of a manifest written by process_book; imports follow one
\* another
ImportBegin ==
    /\ tpc \in {"idle", "returned", "raised"}
    /\ ImportEnter(PipelineManifests)

\* import_timings(path, book_id) of a manifest written by process_book, on a
\* store that no import has touched
ImportPipelineOutput ==
    /\ tpc = "idle"
    /\ ImportEnter(PipelineManifests)

\* the first import of a book, of any manifest
ImportFirst ==
    /\ tpc = "idle"
    /\ ImportEnter(TimingManifests)

\* self.timings_collection.delete_many({"book_id": book_id})
DeleteOld ==
    /\ tpc = "delete"
    /\ timings_collection' = DeleteMany(timings_collection, import_book)
    /\ tpc' = "insert"
    /\ query' = NoQuery
    /\ UNCHANGED <<books_collection, timing_data, import_book, ret_count,
                   old_timings, old_books>>
    /\ UNCHANGED <<groupVars, sessionVars, segVars, pipeVars, auxVars>>

\* timing_docs is built; if timing_docs: insert_many(timing_docs)
InsertNew ==
    /\ tpc = "insert"
    /\ LET timing_docs == TimingDocs(import_book, timing_data.segments)
           r == InsertMany(timings_collection, timing_docs)
       IN /\ timings_collection' = r.coll
          /\ tpc' = IF r.ok THEN "update" ELSE "raised"
    /\ query' = NoQuery
    /\ UNCHANGED <<books_collection, timing_data, import_book, ret_count,
                   old_timings, old_books>>
    /\ UNCHANGED <<groupVars, sessionVars, segVars, pipeVars, auxVars>>

\* if total_duration > 0: update_one(...); return len(timing_docs)
UpdateBook ==
    /\ tpc = "update"
    /\ LET total_duration == timing_data.total_duration
       IN books_collection' =
             IF total_duration > 0
             THEN SetDuration(books_collection, import_book, total_duration)
             ELSE books_collection
    /\ ret_count' = Len(timing_data.segments)
    /\ tpc' = "returned"
    /\ query' = NoQuery
    /\ UNCHANGED <<timings_collection, timing_data, import_book, old_timings,
                   old_books>>
    /\ UNCHANGED <<groupVars, sessionVars, segVars, pipeVars, auxVars>>

\* a store call raises (server or network failure); import_timings logs and
\* re-raises
StoreCallFails ==
    /\ tpc \in {"delete", "insert", "update"}
    /\ tpc' = "raised"
    /\ query' = NoQuery
    /\ UNCHANGED <<timings_collection, books_collection, timing_data,
                   import_book, ret_count, old_timings, old_books>>
    /\ UNCHANGED <<groupVars, sessionVars, segVars, pipeVars, auxVars>>

\* get_all_timings(book_id)
GetAllTimings ==
    /\ \E b \in ImportBooks :
          query' = [ op |-> "list", book_id |-> b, arg |-> 0,
                     docs |-> SortBySegmentIndex(FindBook(timings_collection, b)),
                     num |-> 0 ]
    /\ UNCHANGED <<timings_collection, books_collection, timing_data,
                   import_book, tpc, ret_count, old_timings, old_books>>
    /\ UNCHANGED <<groupVars, sessionVars, segVars, pipeVars, auxVars>>

Timestamps == (0 - 1)..(MaxStart + MaxDur + 1)

\* $lt in place of $lte
AtTime_startExclusive(coll, book_id, timestamp) ==
    { d \in coll : /\ d.book_id = book_id
                   /\ d.start_time < timestamp
                   /\ d.end_time > timestamp }

\* $gte in place of $gt
AtTime_endInclusive(coll, book_id, timestamp) ==
    { d \in coll : /\ d.book_id = book_id
                   /\ d.start_time <= timestamp
                   /\ d.end_time >= timestamp }

\* the filter of find_segment_at_time
AtTime(coll, book_id, timestamp) ==
    { d \in coll : /\ d.book_id = book_id
                   /\ d.start_time <= timestamp
                   /\ d.end_time > timestamp }

\* find_segment_at_time(book_id, timestamp): find_one returns any one
\* matching document, None if there is none
FindSegmentAtTime ==
    /\ \E b \in ImportBooks, t \in Timestamps :
          LET matching == AtTime(timings_collection, b, t)
          IN \/ /\ matching = {}
                /\ query' = [ op |-> "find", book_id |-> b, arg |-> t,
                              docs |-> <<>>, num |-> 0 ]
             \/ \E d \in matching :
                   query' = [ op |-> "find", book_id |-> b, arg |-> t,
                              docs |-> <<d>>, num |-> 0 ]
    /\ UNCHANGED <<timings_collection, books_collection, timing_data,
                   import_book, tpc, ret_count, old_timings, old_books>>
    /\ UNCHANGED <<groupVars, sessionVars, segVars, pipeVars, auxVars>>

\* sort ascending in place of descending
GetBookDuration_ascending ==
    /\ \E b \in ImportBooks :
          LET docs == FindBook(timings_collection, b)
          IN \/ /\ docs = {}
                /\ query' = [ op |-> "duration", book_id |-> b, arg |-> 0,
                              docs |-> <<>>, num |-> 0 ]
             \/ \E last_segment \in docs :
                   /\ \A e \in docs : e.end_time >= last_segment.end_time
                   /\ query' = [ op |-> "duration", book_id |-> b, arg |-> 0,
                                 docs |-> <<>>, num |-> last_segment.end_time ]
    /\ UNCHANGED <<timings_collection, books_collection, timing_data,
                   import_book, tpc, ret_count, old_timings, old_books>>
    /\ UNCHANGED <<groupVars, sessionVars, segVars, pipeVars, auxVars>>

\* get_book_duration(book_id): end_time of the document with the greatest
\* end_time, 0.0 if the book has none
GetBookDuration ==
    /\ \E b \in ImportBooks :
          LET docs == FindBook(timings_collection, b)
          IN \/ /\ docs = {}
                /\ query' = [ op |-> "duration", book_id |-> b, arg |-> 0,
                              docs |-> <<>>, num |-> 0 ]
             \/ \E last_segment \in docs :
                   /\ \A e \in docs : e.end_time <= last_segment.end_time
                   /\ query' = [ op |-> "duration", book_id |-> b, arg |-> 0,
                                 docs |-> <<>>, num |-> last_segment.end_time ]
    /\ UNCHANGED <<timings_collection, books_collection, timing_data,
                   import_book, tpc, ret_count, old_timings, old_books>>
    /\ UNCHANGED <<groupVars, sessionVars, segVars, pipeVars, auxVars>>

StoreNext ==
    \/ ImportBegin
    \/ DeleteOld
    \/ InsertNew
    \/ UpdateBook
    \/ StoreCallFails
    \/ GetAllTimings
    \/ GetBookDuration

Range(f) == { f[k] : k \in DOMAIN f }

InProgress == {"delete", "insert", "update"}

\* C5: a get_all_timings reply for the book being imported, made while
\* import_timings runs, is the complete set of documents the book had before
\* the import or the complete set the import writes.
C5_ReadersSeeOldOrNew ==
    (tpc \in InProgress /\ query.op = "list" /\ query.book_id = import_book) =>
        Range(query.docs) \in
            { old_timings, Range(TimingDocs(import_book, timing_data.segments)) }

\* C7: when import_timings has returned, the book's documents are exactly the
\* documents of the imported manifest, as many as it has segments, whatever
\* the book held before.
C7_ReimportReplaces ==
    tpc = "returned" =>
        /\ FindBook(timings_collection, import_book)
              = Range(TimingDocs(import_book, timing_data.segments))
        /\ Cardinality(FindBook(timings_collection, import_book))
              = Len(timing_data.segments)
        /\ ret_count = Len(timing_data.segments)

C7_Witness ==
    /\ tpc = "returned"
    /\ Cardinality(old_timings) = 2
    /\ Len(timing_data.segments) = 1
    /\ old_timings \cap FindBook(timings_collection, import_book) = {}

DistinctIndexes(segs) ==
    \A j, k \in 1..Len(segs) :
        j # k => segs[j].segment_index # segs[k].segment_index

\* C8: after import_timings has returned for a manifest with distinct
\* segment_index values, get_all_timings of that book returns one document
\* per manifest record, with the record's fields and the book_id, in strictly
\* ascending segment_index order.
C8_ImportListRoundTrip ==
    ( /\ tpc = "returned"
      /\ DistinctIndexes(timing_data.segments)
      /\ query.op = "list"
      /\ query.book_id = import_book ) =>
        LET segs == timing_data.segments
            docs == query.docs
        IN /\ Len(docs) = Len(segs)
           /\ \A k \in 1..(Len(docs) - 1) :
                 docs[k].segment_index < docs[k + 1].segment_index
           /\ \A j \in 1..Len(segs) : \E k \in 1..Len(docs) :
                 /\ docs[k].book_id = import_book
                 /\ docs[k].segment_index = segs[j].segment_index
                 /\ docs[k].speaker = segs[j].speaker
                 /\ docs[k].text = segs[j].text
                 /\ docs[k].start_time = segs[j].start_time
                 /\ docs[k].duration = segs[j].duration
                 /\ docs[k].end_time = segs[j].end_time

C8_Witness ==
    /\ tpc = "returned"
    /\ query.op = "list"
    /\ query.book_id = import_book
    /\ Len(timing_data.segments) = 2
    /\ timing_data.segments[1].segment_index > timing_data.segments[2].segment_index
    /\ Len(query.docs) = 2

\* the duration field of a book document, 0 while it was never set
DurationField(b) ==
    IF books_collection[b].has_duration THEN books_collection[b].duration ELSE 0

LastEndTime(segs) == IF segs = <<>> THEN 0 ELSE segs[Len(segs)].end_time

\* C9: when import_timings has returned for a book that has a book document,
\* the document's duration field is the end_time of the last imported record
\* (0 for an empty import).
C9_DurationFieldIsLastEnd ==
    (tpc = "returned" /\ books_collection[import_book].exists) =>
        DurationField(import_book) = LastEndTime(timing_data.segments)

DurationNext ==
    \/ ImportFirst
    \/ DeleteOld
    \/ InsertNew
    \/ UpdateBook
    \/ StoreCallFails
    \/ GetBookDuration

\* C32: a get_book_duration reply is the greatest end_time among the book's
\* stored documents, 0 when it has none, whatever was imported before; when
\* the book holds a timing set written by process_book, the reply is the
\* end_time of the document with the greatest segment_index.
C32_DurationIsGreatestEnd ==
    query.op = "duration" =>
        LET docs == FindBook(timings_collection, query.book_id)
        IN /\ docs = {} => query.num = 0
           /\ docs # {} =>
                 /\ \E d \in docs : d.end_time = query.num
                 /\ \A d \in docs : d.end_time <= query.num
           /\ ( /\ tpc = "returned"
                /\ query.book_id = import_book
                /\ timing_data \in PipelineManifests
                /\ docs # {} ) =>
                 \E d \in docs :
                    /\ \A e \in docs : e.segment_index <= d.segment_index
                    /\ query.num = d.end_time

C32_Witness ==
    /\ query.op = "duration"
    /\ query.num > 0
    /\ tpc = "returned"
    /\ \E d, e \in FindBook(timings_collection, query.book_id) :
          /\ d.end_time < e.end_time
          /\ d.segment_index > e.segment_index

\* C10: a find_segment_at_time reply is a document of the book whose interval
\* [start_time, end_time) contains the timestamp whenever the book has such a
\* document, and None when it has none.
C10_FindAtTimeContains ==
    query.op = "find" =>
        LET containing ==
               { d \in timings_collection :
                    /\ d.book_id = query.book_id
                    /\ d.start_time <= query.arg
                    /\ query.arg < d.end_time }
        IN IF containing = {}
           THEN query.docs = <<>>
           ELSE Len(query.docs) = 1 /\ query.docs[1] \in containing

C10_Witness ==
    /\ query.op = "find"
    /\ query.book_id = "b1"
    /\ query.docs # <<>>
    /\ \E d \in FindBook(timings_collection, "b1") :
          d.end_time <= query.arg \/ query.arg < d.start_time

\* C11: with only timing sets laid out by process_book imported, a
\* find_segment_at_time reply for timestamp t is the one stored record of
\* the book whose interval [start_time, end_time) contains t when
\* 0 <= t < duration of the book, and None when t < 0 or t >= duration; no
\* second record contains t, so asking again gives the same reply.
C11_FindAtTimeTotal ==
    query.op = "find" =>
        LET docs == FindBook(timings_collection, query.book_id)
            book_duration ==
                IF docs = {} THEN 0
                ELSE (CHOOSE d \in docs :
                         \A e \in docs : e.end_time <= d.end_time).end_time
            containing ==
                { d \in docs : d.start_time <= query.arg
                               /\ query.arg < d.end_time }
        IN IF 0 <= query.arg /\ query.arg < book_duration
           THEN /\ Cardinality(containing) = 1
                /\ Len(query.docs) = 1
                /\ query.docs[1] \in containing
           ELSE /\ containing = {}
                /\ query.docs = <<>>

C11_Witness ==
    /\ query.op = "find"
    /\ tpc = "returned"
    /\ Cardinality(FindBook(timings_collection, query.book_id)) >= 2
    /\ query.docs # <<>>
    /\ query.arg > 0
    /\ query.docs[1].start_time = query.arg

\* ----------------------------------------------------- segments import
\* the document import_segments_from_json builds for segment i of the file
SegmentDoc(book_id, i, segment) ==
    [ book_id       |-> book_id,
      segment_index |-> i,
      voice_id      |-> Get(segment, "voice_id", "null") ]

SegmentDocs(book_id, segs) ==
    [ k \in 1..Len(segs) |-> SegmentDoc(book_id, k - 1, segs[k]) ]

\* books_collection.update_one({"book_id": b}, {"$set": book_doc}, upsert=True)
UpsertBook(books, book_id, n) ==
    IF books[book_id].exists
    THEN [books EXCEPT ![book_id].total_segments = n]
    ELSE [books EXCEPT ![book_id] = BookDoc(n)]

SegIdle ==
    /\ segments_collection = {}
    /\ json_segments = <<>>
    /\ mpc = "idle"
    /\ old_segments = {}

\* import_segments_from_json is entered: the file is loaded, book_id is
\* derived from the title, book_doc and segment_docs are prepared
SegImportBegin ==
    /\ mpc \in {"idle", "returned", "raised"}
    /\ \E b \in ImportBooks, segs \in Manifests :
          /\ import_book' = b
          /\ json_segments' = segs
          /\ old_segments' = FindBook(segments_collection, b)
    /\ old_books' = books_collection
    /\ mpc' = "upsert"
    /\ UNCHANGED <<timings_collection, books_collection, timing_data, tpc,
                   ret_count, old_timings, query>>
    /\ UNCHANGED segments_collection
    /\ UNCHANGED <<groupVars, sessionVars, pipeVars, auxVars>>

\* step 1: upsert the book document
SegUpsertBook ==
    /\ mpc = "upsert"
    /\ books_collection' = UpsertBook(books_collection, import_book,
                                      Len(json_segments))
    /\ mpc' = "delete"
    /\ UNCHANGED <<timings_collection, timing_data, import_book, tpc,
                   ret_count, old_timings, old_books, query>>
    /\ UNCHANGED <<segments_collection, json_segments, old_segments>>
    /\ UNCHANGED <<groupVars, sessionVars, pipeVars, auxVars>>

\* step 2: delete_many({"book_id": book_id})
SegDeleteOld ==
    /\ mpc = "delete"
    /\ segments_collection' = DeleteMany(segments_collection, import_book)
    /\ mpc' = "insert"
    /\ UNCHANGED storeVars
    /\ UNCHANGED <<json_segments, old_segments>>
    /\ UNCHANGED <<groupVars, sessionVars, pipeVars, auxVars>>

\* step 3: if segment_docs: insert_many(segment_docs); return book_id
SegInsertNew ==
    /\ mpc = "insert"
    /\ LET r == InsertMany(segments_collection,
                           SegmentDocs(import_book, json_segments))
       IN /\ segments_collection' = r.coll
          /\ mpc' = IF r.ok THEN "returned" ELSE "raised"
    /\ UNCHANGED storeVars
    /\ UNCHANGED <<json_segments, old_segments>>
    /\ UNCHANGED <<groupVars, sessionVars, pipeVars, auxVars>>

\* a store call raises OperationFailure: it is logged and re-raised
SegStoreCallFails ==
    /\ mpc \in {"upsert", "delete", "insert"}
    /\ mpc' = "raised"
    /\ UNCHANGED storeVars
    /\ UNCHANGED <<segments_collection, json_segments, old_segments>>
    /\ UNCHANGED <<groupVars, sessionVars, pipeVars, auxVars>>

SegNext ==
    \/ SegImportBegin
    \/ SegUpsertBook
    \/ SegDeleteOld
    \/ SegInsertNew
    \/ SegStoreCallFails

\* C6: when import_segments_from_json has raised, the book's segment
\* documents and the books collection are what they were when the import
\* began.
C6_FailedImportChangesNothing ==
    mpc = "raised" =>
        /\ FindBook(segments_collection, import_book) = old_segments
        /\ books_collection = old_books

\* ------------------------------------------------- reads of the index
\* the characters of the texts of the timing records
Chars(text) ==
    IF text = "the wolf" THEN <<"t", "h", "e", " ", "w", "o", "l", "f">>
    ELSE IF text = "a pig" THEN <<"a", " ", "p", "i", "g">>
    ELSE <<>>

\* case folding of a character ("$options": "i")
Lower(c) ==
    IF c = "W" THEN "w" ELSE IF c = "O" THEN "o" ELSE IF c = "L" THEN "l"
    ELSE IF c = "F" THEN "f" ELSE IF c = "P" THEN "p" ELSE c

LowerAll(cs) == [k \in 1..Len(cs) |-> Lower(cs[k])]

Contains(hay, needle) ==
    \E k \in 0..(Len(hay) - Len(needle)) :
        SubSeq(hay, k + 1, k + Len(needle)) = needle

\* {"text": {"$regex": search_text, "$options": "i"}} for a search_text of
\* letters: the text contains it, whatever the case
RegexMatches(text, search_text) ==
    Contains(LowerAll(Chars(text)), LowerAll(search_text))

SearchTexts == << <<"W", "O", "L", "F">>, <<"p", "i", "g">>, <<"o", "x">> >>

SegmentIndexes == 0..(MaxIndex + 1)

\* the filter without the book_id
GetSegmentTiming_anyBook ==
    /\ \E b \in ImportBooks, i \in SegmentIndexes :
          LET matching == { d \in timings_collection : d.segment_index = i }
          IN \/ /\ matching = {}
                /\ query' = [ op |-> "get", book_id |-> b, arg |-> i,
                              docs |-> <<>>, num |-> 0 ]
             \/ \E timing \in matching :
                   query' = [ op |-> "get", book_id |-> b, arg |-> i,
                              docs |-> <<timing>>, num |-> 0 ]
    /\ UNCHANGED <<timings_collection, books_collection, timing_data,
                   import_book, tpc, ret_count, old_timings, old_books>>
    /\ UNCHANGED <<groupVars, sessionVars, segVars, pipeVars, auxVars>>

\* get_segment_timing(book_id, segment_index): find_one returns a matching
\* document, None if there is none
GetSegmentTiming ==
    /\ \E b \in ImportBooks, i \in SegmentIndexes :
          LET matching == { d \in FindBook(timings_collection, b) :
                              d.segment_index = i }
          IN \/ /\ matching = {}
                /\ query' = [ op |-> "get", book_id |-> b, arg |-> i,
                              docs |-> <<>>, num |-> 0 ]
             \/ \E timing \in matching :
                   query' = [ op |-> "get", book_id |-> b, arg |-> i,
                              docs |-> <<timing>>, num |-> 0 ]
    /\ UNCHANGED <<timings_collection, books_collection, timing_data,
                   import_book, tpc, ret_count, old_timings, old_books>>
    /\ UNCHANGED <<groupVars, sessionVars, segVars, pipeVars, auxVars>>

\* search_by_text(book_id, search_text); arg is the position of the
\* search_text in SearchTexts
SearchByText ==
    /\ \E b \in ImportBooks, k \in 1..Len(SearchTexts) :
          LET matching == { d \in FindBook(timings_collection, b) :
                              RegexMatches(d.text, SearchTexts[k]) }
          IN query' = [ op |-> "search", book_id |-> b, arg |-> k,
                        docs |-> SortBySegmentIndex(matching), num |-> 0 ]
    /\ UNCHANGED <<timings_collection, books_collection, timing_data,
                   import_book, tpc, ret_count, old_timings, old_books>>
    /\ UNCHANGED <<groupVars, sessionVars, segVars, pipeVars, auxVars>>

ReadsNext ==
    \/ ImportPipelineOutput
    \/ DeleteOld
    \/ InsertNew
    \/ UpdateBook
    \/ StoreCallFails
    \/ GetSegmentTiming
    \/ GetAllTimings
    \/ FindSegmentAtTime
    \/ GetBookDuration
    \/ SearchByText

ReadOps == {"get", "list", "find", "duration", "search"}

\* C25: a read of a book without timing documents, or of a segment_index
\* the book has no document for, replies None (get, find), the empty list
\* (list, search) or 0 (duration); every read is answered, and a read
\* changes neither collection nor the position of an import.
C25_ReadsOfMissingData ==
    /\ [](LET docs == FindBook(timings_collection, query.book_id)
          IN /\ (query.op \in ReadOps /\ docs = {}) =>
                    (query.docs = <<>> /\ query.num = 0)
             /\ (query.op = "get"
                   /\ \A d \in docs : d.segment_index # query.arg) =>
                    query.docs = <<>>
             /\ (query.op = "search"
                   /\ \A d \in docs :
                         ~RegexMatches(d.text, SearchTexts[query.arg])) =>
                    query.docs = <<>>)
    /\ [][(query'.op \in ReadOps /\ query' # query) =>
             /\ timings_collection' = timings_collection
             /\ books_collection' = books_collection
             /\ tpc' = tpc]_vars

C25_Witness ==
    /\ query.op = "get"
    /\ query.docs = <<>>
    /\ query.arg = 0
    /\ FindBook(timings_collection, query.book_id) = {}
    /\ timings_collection # {}

\* ------------------------------------------------------- delete_book
\* the segment documents of the books that exist when delete_book is called
StoredSegments(books) ==
    { SegmentDoc(b, 0, Segment(0, "voiceA")) : b \in { c \in Books : books[c].exists } }

DeleteStart ==
    /\ segments_collection = StoredSegments(books_collection)
    /\ json_segments = <<>>
    /\ mpc = "idle"
    /\ old_segments = {}

\* delete_book(book_id), called while no import runs:
\* segments_collection.delete_many({"book_id": book_id}), then
\* books_collection.delete_one({"book_id": book_id}); True if a book
\* document was deleted, False if not
DeleteBook ==
    /\ dpc = "idle"
    /\ tpc \in {"idle", "returned", "raised"}
    /\ \E b \in ImportBooks :
          /\ delete_target' = b
          /\ segments_collection' = DeleteMany(segments_collection, b)
          /\ deleted_segments' = Cardinality(FindBook(segments_collection, b))
          /\ books_collection' = [books_collection EXCEPT ![b] = NoBook]
          /\ dpc' = IF books_collection[b].exists
                    THEN "returned_true" ELSE "returned_false"
    /\ query' = NoQuery
    /\ UNCHANGED <<timings_collection, timing_data, import_book, tpc,
                   ret_count, old_timings, old_books>>
    /\ UNCHANGED <<json_segments, mpc, old_segments>>
    /\ UNCHANGED <<groupVars, sessionVars, pipeVars>>
    /\ UNCHANGED <<group_context_ids, concatVars, flushVars, moreVars>>

DeleteNext ==
    \/ ImportPipelineOutput
    \/ DeleteOld
    \/ InsertNew
    \/ UpdateBook
    \/ DeleteBook
    \/ GetSegmentTiming
    \/ GetAllTimings
    \/ FindSegmentAtTime
    \/ GetBookDuration

\* C26: when delete_book has deleted a book, the store holds no timing
\* document of that book, and no segment document and no book document of it.
C26_TimingsGoneAfterDelete ==
    [][(dpc = "idle" /\ dpc' = "returned_true") =>
          /\ FindBook(timings_collection', delete_target) = {}
          /\ FindBook(segments_collection', delete_target) = {}
          /\ ~books_collection'[delete_target].exists]_vars

\* --------------------------------------------- operations on two books
\* a store in which every book has a book document, one segment document
\* and one timing document
BooksStart ==
    /\ timings_collection = { TimingDoc(b, TimingRec(0, 0, 1)) : b \in Books }
    /\ books_collection = [b \in Books |-> BookDoc(1)]
    /\ timing_data = TimingManifest(<<>>)
    /\ import_book = "b1"
    /\ tpc = "idle"
    /\ ret_count = 0
    /\ old_timings = {}
    /\ old_books = books_collection
    /\ query = NoQuery
    /\ DeleteStart

\* import_timings(path, book_id) for any book, of a manifest written by
\* process_book, while no other operation runs
ImportTimingsOfBook ==
    /\ tpc = "idle"
    /\ mpc \in {"idle", "returned", "raised"}
    /\ \E b \in Books, m \in PipelineManifests :
          /\ import_book' = b
          /\ timing_data' = m
          /\ old_timings' = FindBook(timings_collection, b)
    /\ tpc' = "delete"
    /\ ret_count' = 0
    /\ query' = NoQuery
    /\ UNCHANGED <<timings_collection, books_collection, old_books>>
    /\ UNCHANGED <<groupVars, sessionVars, segVars, pipeVars, auxVars>>

\* import_segments_from_json for any book, while no other operation runs
ImportSegmentsOfBook ==
    /\ mpc = "idle"
    /\ tpc \in {"idle", "returned", "raised"}
    /\ \E b \in Books, segs \in StreamManifests :
          /\ import_book' = b
          /\ json_segments' = segs
          /\ old_segments' = FindBook(segments_collection, b)
    /\ old_books' = books_collection
    /\ mpc' = "upsert"
    /\ UNCHANGED <<timings_collection, books_collection, timing_data, tpc,
                   ret_count, old_timings, query>>
    /\ UNCHANGED segments_collection
    /\ UNCHANGED <<groupVars, sessionVars, pipeVars, auxVars>>

\* delete_book(book_id) for any book, while no import runs
DeleteAnyBook ==
    /\ dpc = "idle"
    /\ tpc \in {"idle", "returned", "raised"}
    /\ mpc \in {"idle", "returned", "raised"}
    /\ \E b \in Books :
          /\ delete_target' = b
          /\ segments_collection' = DeleteMany(segments_collection, b)
          /\ deleted_segments' = Cardinality(FindBook(segments_collection, b))
          /\ books_collection' = [books_collection EXCEPT ![b] = NoBook]
          /\ dpc' = IF books_collection[b].exists
                    THEN "returned_true" ELSE "returned_false"
    /\ query' = NoQuery
    /\ UNCHANGED <<timings_collection, timing_data, import_book, tpc,
                   ret_count, old_timings, old_books>>
    /\ UNCHANGED <<json_segments, mpc, old_segments>>
    /\ UNCHANGED <<groupVars, sessionVars, pipeVars>>
    /\ UNCHANGED <<group_context_ids, concatVars, flushVars, moreVars>>

BooksNext ==
    \/ ImportTimingsOfBook
    \/ DeleteOld
    \/ InsertNew
    \/ UpdateBook
    \/ StoreCallFails
    \/ ImportSegmentsOfBook
    \/ SegUpsertBook
    \/ SegDeleteOld
    \/ SegInsertNew
    \/ SegStoreCallFails
    \/ DeleteAnyBook

\* C38: a step of an import or of a delete for one book leaves the timing
\* documents, the segment documents and the book document of every other
\* book as they were.
C38_OtherBooksUntouched ==
    [][LET acting == IF dpc' # dpc THEN delete_target' ELSE import_book'
       IN \A b \in Books \ {acting} :
             /\ FindBook(timings_collection', b) = FindBook(timings_collection, b)
             /\ FindBook(segments_collection', b) = FindBook(segments_collection, b)
             /\ books_collection'[b] = books_collection[b]]_vars

C38_Witness ==
    /\ tpc = "returned"
    /\ mpc = "returned"
    /\ dpc = "returned_true"
    /\ delete_target = "b1"
    /\ import_book = "b2"
    /\ Cardinality(FindBook(segments_collection, "b2")) = 2
    /\ Cardinality(FindBook(timings_collection, "b1")) = 2
    /\ ~books_collection["b1"].exists
    /\ books_collection["b2"].exists

\* ------------------------------------------- text analysis retry loop
max_retries == 3

\* what one generate_content call can do: return a response with text,
\* return a response whose text is in its parts, return a response without
\* content or without candidates (ValueError), time out, or fail otherwise
Successes == {"text", "parts"}

Failures == {"no_content", "no_candidates", "timeout", "api_error"}

RECURSIVE Pow2(_)
Pow2(n) == IF n = 0 THEN 1 ELSE 2 * Pow2(n - 1)

Min(a, b) == IF a <= b THEN a ELSE b

\* the wait does not grow
WaitTime_constant(count) == 2

\* wait_time = min(2.0 * (2 ** retry_count), 30.0), in seconds
WaitTime(count) == Min(2 * Pow2(count), 30)

RetryStart ==
    /\ retry_count = 0
    /\ attempts = <<>>
    /\ waits = <<>>
    /\ rpc = "call"

\* while retry_count < max_retries: response = generate_content(...);
\* response_text is taken from it; break
CallSucceeds ==
    /\ rpc = "call"
    /\ retry_count < max_retries
    /\ \E o \in Successes : attempts' = Append(attempts, o)
    /\ rpc' = "done"
    /\ UNCHANGED <<retry_count, waits>>
    /\ UNCHANGED <<groupVars, sessionVars, storeVars, segVars, pipeVars>>
    /\ UNCHANGED <<group_context_ids, concatVars, flushVars, deleteVars,
                   streamVars>>

\* the call or the reading of the response raises: except Exception
CallFails ==
    /\ rpc = "call"
    /\ retry_count < max_retries
    /\ \E o \in Failures : attempts' = Append(attempts, o)
    /\ rpc' = "except"
    /\ UNCHANGED <<retry_count, waits>>
    /\ UNCHANGED <<groupVars, sessionVars, storeVars, segVars, pipeVars>>
    /\ UNCHANGED <<group_context_ids, concatVars, flushVars, deleteVars,
                   streamVars>>

\* retry_count += 1; if retry_count >= max_retries: raise
HandleFailure ==
    /\ rpc = "except"
    /\ retry_count' = retry_count + 1
    /\ rpc' = IF retry_count + 1 >= max_retries THEN "raised" ELSE "sleep"
    /\ UNCHANGED <<attempts, waits>>
    /\ UNCHANGED <<groupVars, sessionVars, storeVars, segVars, pipeVars>>
    /\ UNCHANGED <<group_context_ids, concatVars, flushVars, deleteVars,
                   streamVars>>

\* wait_time = ...; time.sleep(wait_time); the loop goes round
Sleep ==
    /\ rpc = "sleep"
    /\ waits' = Append(waits, WaitTime(retry_count))
    /\ rpc' = "call"
    /\ UNCHANGED <<retry_count, attempts>>
    /\ UNCHANGED <<groupVars, sessionVars, storeVars, segVars, pipeVars>>
    /\ UNCHANGED <<group_context_ids, concatVars, flushVars, deleteVars,
                   streamVars>>

RetryNext ==
    \/ CallSucceeds
    \/ CallFails
    \/ HandleFailure
    \/ Sleep

\* C31: the text-analysis call is made at most 3 times; nothing follows a
\* success; every wait is twice the wait before it and at most 30 seconds,
\* and one wait stands between two calls; after the third failure the loop
\* raises without a wait; the loop ends, done or raised.
C31_BoundedRetry ==
    /\ [](/\ Len(attempts) <= 3
          /\ \A k \in 1..Len(attempts) :
                attempts[k] \in Successes =>
                   (k = Len(attempts) /\ rpc = "done")
          /\ \A k \in 1..Len(waits) :
                /\ waits[k] <= 30
                /\ k > 1 => waits[k] = 2 * waits[k - 1]
          /\ rpc \in {"call", "done"} => Len(waits) = Len(attempts) - (IF rpc = "done" THEN 1 ELSE 0)
          /\ rpc = "raised" =>
                /\ Len(attempts) = 3
                /\ Len(waits) = 2
                /\ \A k \in 1..3 : attempts[k] \in Failures)
    /\ <>(rpc \in {"done", "raised"})

C31_Witness ==
    /\ rpc = "raised"
    /\ waits = <<4, 8>>
    /\ attempts[3] = "timeout"

\* ------------------------------------------- process_book synthesis loop
\* A segment of a book: position, voice, speaker and the length of its
\* synthesis text.
SpeakerOf(v) == IF v = "voiceA" THEN "narrator" ELSE "wolf"

BookSegment(k, v, n) ==
    [seg_id |-> k, voice_id |-> v, speaker |-> SpeakerOf(v), text_len |-> n]

BookManifestsOfLen(n) ==
    { [k \in 1..n |-> BookSegment(k - 1, f[k], t[k])] :
        f \in [1..n -> Voices], t \in [1..n -> 0..MaxText] }

BookManifests == UNION { BookManifestsOfLen(n) : n \in 0..PipeSegs }

\* Times are exact fractions of a second, counted in ticks.  One second has
\* as many ticks as makes every share of a group's duration a whole number.
RECURSIVE Gcd(_, _)
Gcd(a, b) == IF b = 0 THEN a ELSE Gcd(b, a % b)

RECURSIVE LcmUpTo(_)
LcmUpTo(n) ==
    IF n <= 1 THEN 1
    ELSE LET l == LcmUpTo(n - 1) IN (l * n) \div Gcd(l, n)

TicksPerSecond == LcmUpTo(PipeSegs * MaxText)

\* sf.read of a WAV: the samples after the header; one payload is one second
WavSamples(wav) == Tail(wav)

\* duration = num_samples / sample_rate
WavDuration(wav) == Len(WavSamples(wav)) * TicksPerSecond

RECURSIVE SumTextLen(_)
SumTextLen(group) ==
    IF group = <<>> THEN 0
    ELSE Head(group).text_len + SumTextLen(Tail(group))

\* every segment gets the whole duration of the group
SegDuration_wholeGroup(seg_len, total_chars, duration) ==
    IF total_chars > 0 THEN duration ELSE 0

\* seg_duration = (seg_len / total_chars) * duration if total_chars > 0 else 0
SegDuration(seg_len, total_chars, duration) ==
    IF total_chars > 0 THEN (seg_len * duration) \div total_chars ELSE 0

\* the clock is not advanced after a segment
RECURSIVE TimeSegments_clockStuck(_, _, _, _)
TimeSegments_clockStuck(rest, total_chars, duration, acc) ==
    IF rest = <<>> THEN acc
    ELSE LET seg == Head(rest)
             seg_duration == SegDuration(seg.text_len, total_chars, duration)
             timing_info ==
                 [ segment_index |-> acc.processed_count,
                   speaker       |-> seg.speaker,
                   text          |-> seg.seg_id,
                   start_time    |-> acc.cumulative_time,
                   duration      |-> seg_duration,
                   end_time      |-> acc.cumulative_time + seg_duration ]
         IN TimeSegments_clockStuck(Tail(rest), total_chars, duration,
                [ segment_timings |-> Append(acc.segment_timings, timing_info),
                  cumulative_time |-> acc.cumulative_time,
                  processed_count |-> acc.processed_count + 1 ])

\* the count is not advanced after a segment
RECURSIVE TimeSegments_countStuck(_, _, _, _)
TimeSegments_countStuck(rest, total_chars, duration, acc) ==
    IF rest = <<>> THEN acc
    ELSE LET seg == Head(rest)
             seg_duration == SegDuration(seg.text_len, total_chars, duration)
             timing_info ==
                 [ segment_index |-> acc.processed_count,
                   speaker       |-> seg.speaker,
                   text          |-> seg.seg_id,
                   start_time    |-> acc.cumulative_time,
                   duration      |-> seg_duration,
                   end_time      |-> acc.cumulative_time + seg_duration ]
         IN TimeSegments_countStuck(Tail(rest), total_chars, duration,
                [ segment_timings |-> Append(acc.segment_timings, timing_info),
                  cumulative_time |-> acc.cumulative_time + seg_duration,
                  processed_count |-> acc.processed_count ])

\* for seg in group: build timing_info, append it, advance the clock and
\* the count; acc holds segment_timings, cumulative_time, processed_count
RECURSIVE TimeSegments(_, _, _, _)
TimeSegments(rest, total_chars, duration, acc) ==
    IF rest = <<>> THEN acc
    ELSE LET seg == Head(rest)
             seg_duration == SegDuration(seg.text_len, total_chars, duration)
             timing_info ==
                 [ segment_index |-> acc.processed_count,
                   speaker       |-> seg.speaker,
                   text          |-> seg.seg_id,
                   start_time    |-> acc.cumulative_time,
                   duration      |-> seg_duration,
                   end_time      |-> acc.cumulative_time + seg_duration ]
         IN TimeSegments(Tail(rest), total_chars, duration,
                [ segment_timings |-> Append(acc.segment_timings, timing_info),
                  cumulative_time |-> acc.cumulative_time + seg_duration,
                  processed_count |-> acc.processed_count + 1 ])

NoError == [set |-> FALSE, group |-> 0, speaker |-> "", cause |-> ""]

\* names the group by its 0-based loop index
ErrorMessage_zeroBased(idx, group, cause) ==
    [set |-> TRUE, group |-> idx, speaker |-> group[1].speaker,
     cause |-> cause]

\* f"Group {group_idx+1} ({speaker}): {segment_error}"
ErrorMessage(idx, group, cause) ==
    [set |-> TRUE, group |-> idx + 1, speaker |-> group[1].speaker,
     cause |-> cause]

\* str(audio_error) of the step after the loop
AudioError(cause) ==
    [set |-> TRUE, group |-> 0, speaker |-> "", cause |-> cause]

NoFile ==
    [written |-> FALSE, total_duration |-> 0, total_segments |-> 0,
     segments |-> <<>>]

\* The header of a WAV is one number that holds its sample rate and its
\* channel count; the chunks of the synthesis session have header 0.
WavHeader(sample_rate, num_channels) == sample_rate * 2 + (num_channels - 1)

WavRate(wav) == Head(wav) \div 2

WavChannels(wav) == (Head(wav) % 2) + 1

\* the loop of concatenate_wav_files: the first chunk read sets sample_rate
\* and num_channels, a later chunk that differs in either is skipped, a
\* chunk that sf.read cannot read raises
RECURSIVE ReadChunks(_, _)
ReadChunks(rest, acc) ==
    IF rest = <<>> \/ acc.raised THEN acc
    ELSE LET chunk == Head(rest)
         IN IF chunk = <<>>
            THEN [acc EXCEPT !.raised = TRUE]
            ELSE IF ~acc.have_rate
            THEN ReadChunks(Tail(rest),
                     [ have_rate      |-> TRUE,
                       sample_rate    |-> WavRate(chunk),
                       num_channels   |-> WavChannels(chunk),
                       all_audio_data |-> <<WavSamples(chunk)>>,
                       raised         |-> FALSE ])
            ELSE IF \/ WavRate(chunk) # acc.sample_rate
                    \/ WavChannels(chunk) # acc.num_channels
            THEN ReadChunks(Tail(rest), acc)
            ELSE ReadChunks(Tail(rest),
                     [acc EXCEPT !.all_audio_data =
                                    Append(@, WavSamples(chunk))])

NoChunksRead ==
    [ have_rate |-> FALSE, sample_rate |-> 0, num_channels |-> 0,
      all_audio_data |-> <<>>, raised |-> FALSE ]

\* chunks of another format are concatenated as well
Concatenate_keepsMismatched(chunks) ==
    IF \E k \in 1..Len(chunks) : chunks[k] = <<>>
    THEN [ok |-> FALSE, error |-> "unreadable_audio", wav |-> <<>>]
    ELSE IF chunks = <<>>
    THEN [ok |-> FALSE, error |-> "no_valid_audio", wav |-> <<>>]
    ELSE [ok |-> TRUE, error |-> "none",
          wav |-> <<Head(chunks[1])>>
                  \o Flatten([k \in 1..Len(chunks) |-> WavSamples(chunks[k])])]

\* no data gives a file without samples instead of an error
Concatenate_emptyFile(chunks) ==
    LET acc == ReadChunks(chunks, NoChunksRead)
    IN IF acc.raised
       THEN [ok |-> FALSE, error |-> "unreadable_audio", wav |-> <<>>]
       ELSE [ok |-> TRUE, error |-> "none",
             wav |-> <<WavHeader(acc.sample_rate, acc.num_channels)>>
                     \o Flatten(acc.all_audio_data)]

\* concatenate_wav_files: what it writes to output_path, or the error
Concatenate(chunks) ==
    LET acc == ReadChunks(chunks, NoChunksRead)
    IN IF acc.raised
       THEN [ok |-> FALSE, error |-> "unreadable_audio", wav |-> <<>>]
       ELSE IF acc.all_audio_data = <<>>
       THEN [ok |-> FALSE, error |-> "no_valid_audio", wav |-> <<>>]
       ELSE [ok |-> TRUE, error |-> "none",
             wav |-> <<WavHeader(acc.sample_rate, acc.num_channels)>>
                     \o Flatten(acc.all_audio_data)]

\* inputs of concatenate_wav_files: an unreadable buffer, or a WAV with a
\* header and at most one second of samples
Headers == 0..MaxHeader

Chunks ==
    {<<>>} \cup { <<h>> \o smp : h \in Headers,
                                 smp \in {<<>>} \cup { <<q>> : q \in Payloads } }

ChunkLists == UNION { [1..n -> Chunks] : n \in 0..MaxChunks }

ConcatStart ==
    /\ cat_chunks \in ChunkLists
    /\ cat_file = <<>>
    /\ cat_error = "none"
    /\ cpc = "start"

\* concatenate_wav_files(wav_chunks, output_path)
ConcatenateWavFiles ==
    /\ cpc = "start"
    /\ LET joined == Concatenate(cat_chunks)
       IN IF joined.ok
          THEN /\ cat_file' = joined.wav
               /\ cpc' = "returned"
               /\ UNCHANGED cat_error
          ELSE /\ cat_error' = joined.error
               /\ cpc' = "raised"
               /\ UNCHANGED cat_file
    /\ UNCHANGED cat_chunks
    /\ UNCHANGED <<groupVars, sessionVars, storeVars, segVars, pipeVars>>
    /\ UNCHANGED <<group_context_ids, flushVars, deleteVars, moreVars>>

ConcatNext == ConcatenateWavFiles

\* the samples, in input order, of the chunks from position k on that have
\* the format of the first chunk
RECURSIVE SameFormatSamples(_, _)
SameFormatSamples(chunks, k) ==
    IF k > Len(chunks) THEN <<>>
    ELSE (IF Head(chunks[k]) = Head(chunks[1])
          THEN Tail(chunks[k]) ELSE <<>>)
         \o SameFormatSamples(chunks, k + 1)

Readable(chunks) == \A k \in 1..Len(chunks) : chunks[k] # <<>>

\* C23: for readable inputs concatenate_wav_files returns whenever there is
\* an input, and the file it writes has the format of the first input and,
\* in input order, the samples of exactly the inputs of that format; three
\* mono inputs of one second at one rate give three seconds.
C23_ConcatKeepsOrder ==
    /\ (cpc \in {"returned", "raised"} /\ Readable(cat_chunks)
           /\ cat_chunks # <<>>) =>
          /\ cpc = "returned"
          /\ Head(cat_file) = Head(cat_chunks[1])
          /\ Tail(cat_file) = SameFormatSamples(cat_chunks, 1)
    /\ LET joined == Concatenate(<<<<0, 1>>, <<0, 1>>, <<0, 1>>>>)
       IN joined.ok /\ Len(WavSamples(joined.wav)) = 3

C23_Witness ==
    /\ cpc = "returned"
    /\ Len(cat_chunks) = 3
    /\ Head(cat_chunks[2]) # Head(cat_chunks[1])
    /\ Len(cat_chunks[2]) = 2
    /\ Head(cat_chunks[3]) = Head(cat_chunks[1])
    /\ Len(cat_chunks[1]) = 2
    /\ Len(cat_chunks[3]) = 2
    /\ cat_chunks[1] # cat_chunks[3]

\* C24: for readable inputs concatenate_wav_files raises the no-valid-audio
\* error exactly when no input has the format of the first one, which is
\* when the list is empty, and then it writes no file.
C24_NoValidAudioIffNoneSurvive ==
    (cpc \in {"returned", "raised"} /\ Readable(cat_chunks)) =>
        LET surviving == { k \in 1..Len(cat_chunks) :
                             Head(cat_chunks[k]) = Head(cat_chunks[1]) }
        IN /\ (cpc = "raised" /\ cat_error = "no_valid_audio")
                 <=> surviving = {}
           /\ surviving = {} <=> cat_chunks = <<>>
           /\ cpc = "raised" => cat_file = <<>>
           /\ cpc = "returned" => (cat_error = "none" /\ cat_file # <<>>)

C24_Witness ==
    /\ cpc = "raised"
    /\ cat_error = "no_valid_audio"
    /\ cat_chunks = <<>>

PipeIdle ==
    /\ has_callback = FALSE
    /\ group_idx = 0
    /\ wav_chunks = <<>>
    /\ segment_timings = <<>>
    /\ cumulative_time = 0
    /\ processed_count = 0
    /\ group_durations = <<>>
    /\ result = [success |-> FALSE, segments_json |-> FALSE,
                 final_wav |-> FALSE, timing_json |-> FALSE, error |-> NoError]
    /\ timing_file = NoFile
    /\ final_wav_file = <<>>
    /\ delivered = <<>>
    /\ ppc = "idle"

\* process_book after the segments manifest has been saved
PipeStart ==
    /\ has_callback \in BOOLEAN
    /\ group_idx = 0
    /\ wav_chunks = <<>>
    /\ segment_timings = <<>>
    /\ cumulative_time = 0
    /\ processed_count = 0
    /\ group_durations = <<>>
    /\ result = [success |-> FALSE, segments_json |-> TRUE,
                 final_wav |-> FALSE, timing_json |-> FALSE, error |-> NoError]
    /\ timing_file = NoFile
    /\ final_wav_file = <<>>
    /\ delivered = <<>>
    /\ ppc = "grouping"

BookStart ==
    /\ mode = "process_book"
    /\ segments \in BookManifests
    /\ start_index = 0
    /\ segments_to_process = <<>>
    /\ grouped_segments = <<>>
    /\ current_group = <<>>
    /\ gi = 0
    /\ gpc = "load"

\* wav_chunks = []; segment_timings = []; cumulative_time = 0.0;
\* processed_count = 0
BeginSynthesis ==
    /\ ppc = "grouping"
    /\ gpc = "grouped"
    /\ wav_chunks' = <<>>
    /\ segment_timings' = <<>>
    /\ cumulative_time' = 0
    /\ processed_count' = 0
    /\ group_idx' = 0
    /\ ppc' = "loop"
    /\ UNCHANGED <<has_callback, group_durations, result, timing_file,
                   final_wav_file, delivered>>
    /\ UNCHANGED <<groupVars, sessionVars, storeVars, segVars, auxVars>>

\* str(uuid.uuid4()): a value that was not made before
Uuid4Values == { StrId(<<"u", ToString(k)>>) : k \in 1..PipeSegs }

\* every group gets the same context id
NextGroup_reusesId ==
    /\ ppc = "loop"
    /\ group_idx < Len(grouped_segments)
    /\ segments_group' = grouped_segments[group_idx + 1]
    /\ context_id' = StrId(<<"u", "1">>)
    /\ group_context_ids' = Append(group_context_ids, context_id')
    /\ websocket' = "none"
    /\ sent' = <<>>
    /\ si' = 0
    /\ all_audio_bytes' = <<>>
    /\ nframes' = 0
    /\ spc' = "start"
    /\ wav_bytes' = <<>>
    /\ failure' = "none"
    /\ frame' = NoFrame
    /\ ppc' = "synth"
    /\ UNCHANGED <<has_callback, group_idx, wav_chunks, segment_timings,
                   cumulative_time, processed_count, group_durations, result,
                   timing_file, final_wav_file, delivered>>
    /\ UNCHANGED <<groupVars, storeVars, segVars>>
    /\ UNCHANGED <<concatVars, flushVars, deleteVars, moreVars>>

\* loop head: the next group gets a fresh context id and its session starts
NextGroup ==
    /\ ppc = "loop"
    /\ group_idx < Len(grouped_segments)
    /\ segments_group' = grouped_segments[group_idx + 1]
    /\ \E u \in Uuid4Values \ { group_context_ids[k] :
                                     k \in 1..Len(group_context_ids) } :
          /\ context_id' = u
          /\ group_context_ids' = Append(group_context_ids, u)
    /\ websocket' = "none"
    /\ sent' = <<>>
    /\ si' = 0
    /\ all_audio_bytes' = <<>>
    /\ nframes' = 0
    /\ spc' = "start"
    /\ wav_bytes' = <<>>
    /\ failure' = "none"
    /\ frame' = NoFrame
    /\ ppc' = "synth"
    /\ UNCHANGED <<has_callback, group_idx, wav_chunks, segment_timings,
                   cumulative_time, processed_count, group_durations, result,
                   timing_file, final_wav_file, delivered>>
    /\ UNCHANGED <<groupVars, storeVars, segVars>>
    /\ UNCHANGED <<concatVars, flushVars, deleteVars, moreVars>>

\* the loop goes on with the next group after a failure
GroupFailed_continues ==
    /\ ppc = "synth"
    /\ spc = "raised"
    /\ result' = [result EXCEPT
                    !.error = ErrorMessage(group_idx, segments_group, failure)]
    /\ group_idx' = group_idx + 1
    /\ ppc' = "loop"
    /\ UNCHANGED <<has_callback, wav_chunks, segment_timings,
                   cumulative_time, processed_count, group_durations,
                   timing_file, final_wav_file, delivered>>
    /\ UNCHANGED <<groupVars, sessionVars, storeVars, segVars, auxVars>>

\* the session raised: except Exception sets result["error"] and breaks
GroupFailed ==
    /\ ppc = "synth"
    /\ spc = "raised"
    /\ result' = [result EXCEPT
                    !.error = ErrorMessage(group_idx, segments_group, failure)]
    /\ ppc' = "after_loop"
    /\ UNCHANGED <<has_callback, group_idx, wav_chunks, segment_timings,
                   cumulative_time, processed_count, group_durations,
                   timing_file, final_wav_file, delivered>>
    /\ UNCHANGED <<groupVars, sessionVars, storeVars, segVars, auxVars>>

\* the session returned: the chunk is kept, measured and timed, and handed
\* to the callback; any exception on the way sets result["error"] and breaks
GroupSynthesized ==
    /\ ppc = "synth"
    /\ spc = "returned"
    /\ LET audio_bytes == wav_bytes
           group == segments_group
           Break(cause) ==
               /\ result' = [result EXCEPT
                               !.error = ErrorMessage(group_idx, group, cause)]
               /\ ppc' = "after_loop"
               /\ UNCHANGED group_idx
           Continue ==
               /\ group_idx' = group_idx + 1
               /\ ppc' = "loop"
               /\ UNCHANGED result
       IN /\ wav_chunks' = Append(wav_chunks, audio_bytes)
          /\ IF audio_bytes = <<>>
             THEN \* sf.read of an empty buffer raises
                  /\ Break("unreadable_audio")
                  /\ UNCHANGED <<segment_timings, cumulative_time,
                                 processed_count, group_durations, delivered>>
             ELSE LET duration == WavDuration(audio_bytes)
                      total_chars == SumTextLen(group)
                      acc == TimeSegments(group, total_chars, duration,
                                 [ segment_timings |-> segment_timings,
                                   cumulative_time |-> cumulative_time,
                                   processed_count |-> processed_count ])
                  IN /\ segment_timings' = acc.segment_timings
                     /\ cumulative_time' = acc.cumulative_time
                     /\ processed_count' = acc.processed_count
                     /\ group_durations' = Append(group_durations, duration)
                     /\ IF has_callback
                        THEN \/ /\ delivered' = Append(delivered, audio_bytes)
                                /\ Continue
                             \/ /\ delivered' = Append(delivered, audio_bytes)
                                /\ Break("callback_raised")
                        ELSE /\ UNCHANGED delivered
                             /\ Continue
    /\ UNCHANGED <<has_callback, timing_file, final_wav_file>>
    /\ UNCHANGED <<groupVars, sessionVars, storeVars, segVars, auxVars>>

\* if result["error"]: return result
ReturnFailure ==
    /\ ppc = "after_loop"
    /\ result.error.set
    /\ ppc' = "returned"
    /\ UNCHANGED <<has_callback, group_idx, wav_chunks, segment_timings,
                   cumulative_time, processed_count, group_durations, result,
                   timing_file, final_wav_file, delivered>>
    /\ UNCHANGED <<groupVars, sessionVars, storeVars, segVars, auxVars>>

\* success is reported whether or not the concatenation worked
WriteOutputs_alwaysSuccess ==
    /\ ppc = "loop"
    /\ group_idx = Len(grouped_segments)
    /\ timing_file' = [ written        |-> TRUE,
                        total_duration |-> cumulative_time,
                        total_segments |-> Len(segment_timings),
                        segments       |-> segment_timings ]
    /\ LET joined == Concatenate(wav_chunks)
       IN /\ final_wav_file' = joined.wav
          /\ result' = [result EXCEPT !.success = TRUE,
                                      !.final_wav = TRUE,
                                      !.timing_json = TRUE]
    /\ ppc' = "returned"
    /\ UNCHANGED <<has_callback, group_idx, wav_chunks, segment_timings,
                   cumulative_time, processed_count, group_durations,
                   delivered>>
    /\ UNCHANGED <<groupVars, sessionVars, storeVars, segVars, auxVars>>

\* the loop ended without an error: segment_timings.json is written, the
\* chunks are concatenated into the final WAV and the result is filled in
WriteOutputs ==
    /\ ppc = "loop"
    /\ group_idx = Len(grouped_segments)
    /\ timing_file' = [ written        |-> TRUE,
                        total_duration |-> cumulative_time,
                        total_segments |-> Len(segment_timings),
                        segments       |-> segment_timings ]
    /\ LET joined == Concatenate(wav_chunks)
       IN IF joined.ok
          THEN /\ final_wav_file' = joined.wav
               /\ result' = [result EXCEPT !.success = TRUE,
                                           !.final_wav = TRUE,
                                           !.timing_json = TRUE]
          ELSE /\ UNCHANGED final_wav_file
               /\ result' = [result EXCEPT
                               !.error = AudioError(joined.error)]
    /\ ppc' = "returned"
    /\ UNCHANGED <<has_callback, group_idx, wav_chunks, segment_timings,
                   cumulative_time, processed_count, group_durations,
                   delivered>>
    /\ UNCHANGED <<groupVars, sessionVars, storeVars, segVars, auxVars>>

PipeNext ==
    \/ LoadSegments
    \/ GroupBegin
    \/ GroupIter
    \/ GroupEnd
    \/ BeginSynthesis
    \/ NextGroup
    \/ Connect
    \/ SendRequest
    \/ SendFails
    \/ RecvAudio
    \/ RecvIgnored
    \/ RecvDone
    \/ RecvError
    \/ WrapAudio
    \/ GroupSynthesized
    \/ GroupFailed
    \/ ReturnFailure
    \/ WriteOutputs

\* position in segment_timings of the first record of group g (0-based)
RECURSIVE GroupBase(_)
GroupBase(g) ==
    IF g <= 1 THEN 0
    ELSE GroupBase(g - 1) + Len(grouped_segments[g - 1])

RECURSIVE SumSeq(_)
SumSeq(xs) == IF xs = <<>> THEN 0 ELSE Head(xs) + SumSeq(Tail(xs))

\* C12: at every point of the synthesis loop the timing records made so
\* far satisfy end_time = start_time + duration, the first starts at 0,
\* start_time never decreases with the index and each record ends where
\* the next one starts.
C12_TimingsContiguous ==
    /\ \A k \in 1..Len(segment_timings) :
          segment_timings[k].end_time
             = segment_timings[k].start_time + segment_timings[k].duration
    /\ segment_timings # <<>> => segment_timings[1].start_time = 0
    /\ \A k \in 1..(Len(segment_timings) - 1) :
          /\ segment_timings[k].start_time <= segment_timings[k + 1].start_time
          /\ segment_timings[k].end_time = segment_timings[k + 1].start_time

C12_Witness ==
    /\ Len(group_durations) >= 2
    /\ Len(segment_timings) >= 2
    /\ segment_timings[1].duration > 0
    /\ segment_timings[2].duration > 0

\* C13: after every timed group the clock is the sum of the measured
\* durations of the groups timed so far (so each group's records sum to
\* its measured duration), and the total_duration written to the manifest
\* is the sum of all groups' measured durations.
C13_DurationsSumToAudio ==
    /\ cumulative_time = SumSeq(group_durations)
    /\ timing_file.written =>
          timing_file.total_duration = SumSeq(group_durations)

\* C14: the duration of every record of a timed group, multiplied by the
\* group's total text length, is the segment's text length multiplied by
\* the group's measured duration; it is 0 when the total text length is 0;
\* a group of 10 seconds with text lengths 3 and 7 gives 3 and 7 seconds.
C14_ShareByTextLength ==
    /\ \A g \in 1..Len(group_durations) :
          LET group == grouped_segments[g]
              total_chars == SumTextLen(group)
          IN \A j \in 1..Len(group) :
                LET r == segment_timings[GroupBase(g) + j]
                IN IF total_chars = 0
                   THEN r.duration = 0
                   ELSE r.duration * total_chars
                           = group[j].text_len * group_durations[g]
    /\ SegDuration(3, 10, 10 * TicksPerSecond) = 3 * TicksPerSecond
    /\ SegDuration(7, 10, 10 * TicksPerSecond) = 7 * TicksPerSecond

C14_Witness ==
    \E g \in 1..Len(group_durations) :
        /\ Len(grouped_segments[g]) = 2
        /\ grouped_segments[g][1].text_len = 1
        /\ grouped_segments[g][2].text_len = 2
        /\ group_durations[g] > 0

\* C15: record k made by the synthesis loop has segment_index k-1 and
\* describes the k-th segment of the book, and the written manifest holds
\* one record for every segment of the book.
C15_IndexesInBookOrder ==
    /\ Len(segment_timings) <= Len(segments)
    /\ \A k \in 1..Len(segment_timings) :
          /\ segment_timings[k].segment_index = k - 1
          /\ segment_timings[k].text = segments[k].seg_id
          /\ segment_timings[k].speaker = segments[k].speaker
    /\ timing_file.written =>
          /\ timing_file.segments = segment_timings
          /\ timing_file.total_segments = Len(segments)
          /\ Len(timing_file.segments) = Len(segments)

C15_Witness ==
    /\ timing_file.written
    /\ Len(segments) = 2
    /\ Len(grouped_segments) = 2

\* C16: when a session has raised for an error frame it reads no further
\* frame and returns nothing, its connection is closed, no chunk is kept
\* for the group, and the result of process_book carries an error that
\* names that group's number and the speaker of that group, success false.
C16_ErrorFrameAbortsGroup ==
    failure = "backend_error" =>
        /\ spc = "raised"
        /\ websocket = "closed"
        /\ wav_bytes = <<>>
        /\ ppc # "idle" =>
              /\ Len(wav_chunks) = group_idx
              /\ ppc \in {"synth", "after_loop", "returned"}
              /\ ppc \in {"after_loop", "returned"} =>
                    /\ ~result.success
                    /\ result.error.set
                    /\ result.error.cause = "backend_error"
                    /\ result.error.group = group_idx + 1
                    /\ result.error.group \in 1..Len(grouped_segments)
                    /\ grouped_segments[result.error.group] = segments_group
                    /\ result.error.speaker = segments_group[1].speaker

C16_Witness ==
    /\ ppc = "returned"
    /\ failure = "backend_error"
    /\ group_idx = 1
    /\ all_audio_bytes # <<>>

\* C17: once result["error"] is set no connection is opened, no request is
\* sent, no session is started or advanced and the loop index stays, and
\* the result keeps success false.
C17_NoSynthesisAfterFailure ==
    [][result.error.set =>
          /\ websocket' = websocket
          /\ sent' = sent
          /\ spc' = spc
          /\ group_idx' = group_idx
          /\ result'.error.set
          /\ ~result'.success]_vars

C17_Witness ==
    /\ ppc = "returned"
    /\ result.error.set
    /\ result.error.group = 1
    /\ Len(grouped_segments) = 2

\* C18: when process_book has returned after the failure of a group that
\* is not the first, the timing records of the groups before it are in the
\* written timing manifest and their audio is in the final WAV or was
\* handed to the callback.
C18_FailureKeepsCompletedGroups ==
    (ppc = "returned" /\ result.error.set /\ result.error.group > 1) =>
        /\ timing_file.written
        /\ timing_file.segments = segment_timings
        /\ \/ final_wav_file # <<>>
           \/ Len(delivered) >= result.error.group - 1

\* C33: when process_book has returned with success, the total_duration of
\* the written timing manifest is the duration of the final WAV, which is
\* the sum of the durations of the concatenated chunks, and total_segments
\* is the number of segments of the book.
C33_ManifestMatchesAudio ==
    (ppc = "returned" /\ result.success) =>
        /\ timing_file.written
        /\ WavDuration(final_wav_file) = SumSeq(group_durations)
        /\ timing_file.total_duration = WavDuration(final_wav_file)
        /\ timing_file.total_segments = Len(segments)

\* C34: the result of process_book is consistent at every point: success
\* only with every group synthesized, the timing manifest written and the
\* final WAV written; success with no error and with final_wav set; an
\* error with no success and final_wav unset; and a returned result is
\* either a success or carries an error.
C34_ResultConsistent ==
    /\ result.success =>
          /\ ppc = "returned"
          /\ Len(wav_chunks) = Len(grouped_segments)
          /\ Len(group_durations) = Len(grouped_segments)
          /\ \A k \in 1..Len(wav_chunks) : wav_chunks[k] # <<>>
          /\ timing_file.written
          /\ result.timing_json
          /\ final_wav_file # <<>>
          /\ ~result.error.set
          /\ result.final_wav
    /\ result.error.set => (~result.success /\ ~result.final_wav)
    /\ result.final_wav => final_wav_file # <<>>
    /\ ppc = "returned" => (result.success \/ result.error.set)

C34_Witness ==
    /\ ppc = "returned"
    /\ result.error.set
    /\ result.error.cause = "no_valid_audio"
    /\ timing_file.written
    /\ ~result.success

\* C27: sessions are started for the groups in book order, one at a time: a
\* session starts only when the one before it has returned and no
\* connection is open; all requests on a connection are the current
\* group's segments in order and carry the current group's context id; the
\* context ids given to the groups are pairwise different.
C27_OneGroupAtATime ==
    /\ [](/\ \A a, b \in 1..Len(group_context_ids) :
               a # b => group_context_ids[a] # group_context_ids[b]
          /\ (ppc \in {"synth", "after_loop", "returned"}
                 /\ group_context_ids # <<>>) =>
                /\ \/ Len(group_context_ids) = group_idx + 1
                   \/ (Len(group_context_ids) = group_idx /\ ppc = "returned")
                /\ segments_group = grouped_segments[Len(group_context_ids)]
                /\ context_id = group_context_ids[Len(group_context_ids)]
          /\ Len(sent) <= Len(segments_group)
          /\ \A i \in 1..Len(sent) :
                /\ sent[i].context_id = context_id
                /\ sent[i].transcript = segments_group[i].seg_id)
    /\ [][Len(group_context_ids') > Len(group_context_ids) =>
             /\ websocket # "open"
             /\ spc \in {"idle", "returned"}
             /\ Len(group_context_ids') = group_idx + 1]_vars

C27_Witness ==
    /\ Len(group_context_ids) = 2
    /\ websocket = "open"
    /\ sent # <<>>

\* ------------------------------------------ stream_audio_from_segments
StartIndexes == (0 - (PipeSegs + 1))..(PipeSegs + 1)

\* stream_audio_from_segments(segments_path, start_index, output_path,
\* audio_callback) is called
StreamStart ==
    /\ mode = "stream"
    /\ segments \in StreamManifests
    /\ start_index \in StartIndexes
    /\ segments_to_process = <<>>
    /\ grouped_segments = <<>>
    /\ current_group = <<>>
    /\ gi = 0
    /\ gpc = "load"
    /\ PipeStart
    /\ output_path \in {"None", "out.wav"}

\* the range check raised: the exception leaves the function
StreamRejected ==
    /\ ppc = "grouping"
    /\ gpc = "error"
    /\ ppc' = "raised"
    /\ UNCHANGED <<has_callback, group_idx, wav_chunks, segment_timings,
                   cumulative_time, processed_count, group_durations, result,
                   timing_file, final_wav_file, delivered>>
    /\ UNCHANGED <<groupVars, sessionVars, storeVars, segVars, auxVars>>

\* wav_chunks = []
StreamBegin ==
    /\ ppc = "grouping"
    /\ gpc = "grouped"
    /\ wav_chunks' = <<>>
    /\ group_idx' = 0
    /\ ppc' = "loop"
    /\ UNCHANGED <<has_callback, segment_timings, cumulative_time,
                   processed_count, group_durations, result, timing_file,
                   final_wav_file, delivered>>
    /\ UNCHANGED <<groupVars, sessionVars, storeVars, segVars, auxVars>>

\* the awaited session raised: the exception leaves the function
StreamGroupRaised ==
    /\ ppc = "synth"
    /\ spc = "raised"
    /\ ppc' = "raised"
    /\ UNCHANGED <<has_callback, group_idx, wav_chunks, segment_timings,
                   cumulative_time, processed_count, group_durations, result,
                   timing_file, final_wav_file, delivered>>
    /\ UNCHANGED <<groupVars, sessionVars, storeVars, segVars, auxVars>>

\* the awaited session returned audio_bytes: wav_chunks.append(audio_bytes);
\* if audio_callback: audio_callback(audio_bytes), which may raise
StreamGroupReturned ==
    /\ ppc = "synth"
    /\ spc = "returned"
    /\ LET audio_bytes == wav_bytes
       IN /\ wav_chunks' = Append(wav_chunks, audio_bytes)
          /\ IF has_callback
             THEN /\ delivered' = Append(delivered, audio_bytes)
                  /\ \/ group_idx' = group_idx + 1 /\ ppc' = "loop"
                     \/ UNCHANGED group_idx /\ ppc' = "raised"
             ELSE /\ UNCHANGED delivered
                  /\ group_idx' = group_idx + 1
                  /\ ppc' = "loop"
    /\ UNCHANGED <<has_callback, segment_timings, cumulative_time,
                   processed_count, group_durations, result, timing_file,
                   final_wav_file>>
    /\ UNCHANGED <<groupVars, sessionVars, storeVars, segVars, auxVars>>

\* after the loop: if output_path: concatenate_wav_files(wav_chunks,
\* output_path); return output_path; else return None
StreamFinish ==
    /\ ppc = "loop"
    /\ group_idx = Len(grouped_segments)
    /\ IF output_path # "None"
       THEN LET joined == Concatenate(wav_chunks)
            IN IF joined.ok
               THEN final_wav_file' = joined.wav /\ ppc' = "returned"
               ELSE UNCHANGED final_wav_file /\ ppc' = "raised"
       ELSE UNCHANGED final_wav_file /\ ppc' = "returned"
    /\ UNCHANGED <<has_callback, group_idx, wav_chunks, segment_timings,
                   cumulative_time, processed_count, group_durations, result,
                   timing_file, delivered>>
    /\ UNCHANGED <<groupVars, sessionVars, storeVars, segVars, auxVars>>

StreamNext ==
    \/ LoadSegments
    \/ GroupBegin
    \/ GroupIter
    \/ GroupEnd
    \/ StreamRejected
    \/ StreamBegin
    \/ NextGroup
    \/ Connect
    \/ SendRequest
    \/ SendFails
    \/ RecvAudio
    \/ RecvIgnored
    \/ RecvDone
    \/ RecvError
    \/ WrapAudio
    \/ StreamGroupReturned
    \/ StreamGroupRaised
    \/ StreamFinish

NonEmpty(w) == w # <<>>

\* C35: the callback is called once for every group whose synthesis gave
\* audio, in group order and with that group's audio, in process_book in the
\* step that appends the group's timing records; it is not called for a
\* group whose synthesis failed or gave nothing, nor once a group has failed.
C35_CallbackPerSynthesizedGroup ==
    /\ [](/\ ppc \in {"loop", "after_loop", "returned", "raised"} =>
               delivered = IF has_callback
                           THEN SelectSeq(wav_chunks, NonEmpty) ELSE <<>>
          /\ \A k \in 1..Len(delivered) : delivered[k] # <<>>)
    /\ [][delivered' # delivered =>
             /\ ~result.error.set
             /\ ppc = "synth" /\ spc = "returned"
             /\ delivered' = Append(delivered, wav_bytes)
             /\ mode = "process_book" =>
                   Len(segment_timings')
                      = Len(segment_timings) + Len(segments_group)]_vars

\* C39: streaming from start_index groups exactly the segments
\* start_index..N-1 and synthesizes the groups in order; a start_index
\* outside 0..N-1 is rejected before a context id is made or a connection
\* is opened.
C39_StartIndexRange ==
    /\ gpc \in {"group", "loop", "grouped"} =>
          /\ start_index \in 0..(Len(segments) - 1)
          /\ segments_to_process
                = SubSeq(segments, start_index + 1, Len(segments))
    /\ (gpc # "load" /\ start_index \notin 0..(Len(segments) - 1)) =>
          /\ gpc = "error"
          /\ group_context_ids = <<>>
          /\ websocket = "none"
          /\ wav_chunks = <<>>
    /\ ppc = "returned" =>
          /\ Flatten(grouped_segments)
                = SubSeq(segments, start_index + 1, Len(segments))
          /\ Len(wav_chunks) = Len(grouped_segments)

GroupInit == GroupStart /\ SessionIdle /\ StoreIdle /\ SegIdle /\ PipeIdle /\ AuxIdle

SpecGroup == GroupInit /\ [][GroupNext]_vars

SessionInit == GroupIdle /\ SessionStart /\ StoreIdle /\ SegIdle /\ PipeIdle /\ AuxIdle

SpecSession == SessionInit /\ [][SessionNext]_vars

SpecFlush == SessionInit /\ [][FlushNext]_vars

StoreInit == GroupIdle /\ SessionIdle /\ StoreStart /\ SegIdle /\ PipeIdle /\ AuxIdle

SpecStore == StoreInit /\ [][StoreNext]_vars

QueryNext ==
    \/ ImportFirst
    \/ DeleteOld
    \/ InsertNew
    \/ UpdateBook
    \/ StoreCallFails
    \/ GetAllTimings
    \/ FindSegmentAtTime
    \/ GetBookDuration

SpecQuery == StoreInit /\ [][QueryNext]_vars

SpecDuration == StoreInit /\ [][DurationNext]_vars

TimelineNext ==
    \/ ImportPipelineOutput
    \/ DeleteOld
    \/ InsertNew
    \/ UpdateBook
    \/ StoreCallFails
    \/ FindSegmentAtTime

SpecTimeline == StoreInit /\ [][TimelineNext]_vars

SegInit == GroupIdle /\ SessionIdle /\ StoreIdle /\ SegIdle /\ PipeIdle /\ AuxIdle

SpecSegments == SegInit /\ [][SegNext]_vars

PipeInit == BookStart /\ SessionIdle /\ StoreIdle /\ SegIdle /\ PipeStart /\ AuxIdle

SpecPipeline == PipeInit /\ [][PipeNext]_vars

StreamInit ==
    /\ StreamStart /\ SessionIdle /\ StoreIdle /\ SegIdle
    /\ group_context_ids = <<>>
    /\ ConcatIdle /\ FlushIdle /\ DeleteIdle /\ RetryIdle

SpecStream == StreamInit /\ [][StreamNext]_vars

ConcatInit ==
    /\ GroupIdle /\ SessionIdle /\ StoreIdle /\ SegIdle /\ PipeIdle
    /\ group_context_ids = <<>>
    /\ ConcatStart /\ FlushIdle /\ DeleteIdle /\ MoreIdle

SpecConcat == ConcatInit /\ [][ConcatNext]_vars

RetryInit ==
    /\ GroupIdle /\ SessionIdle /\ StoreIdle /\ SegIdle /\ PipeIdle
    /\ group_context_ids = <<>>
    /\ ConcatIdle /\ FlushIdle /\ DeleteIdle
    /\ RetryStart /\ StreamIdle

\* each step of the loop is a call that returns or raises, or a sleep that
\* ends: the loop is not held up for ever
SpecRetry == RetryInit /\ [][RetryNext]_vars /\ WF_vars(RetryNext)

SpecReads == StoreInit /\ [][ReadsNext]_vars

BooksInit ==
    /\ GroupIdle /\ SessionIdle /\ BooksStart /\ PipeIdle /\ AuxIdle

SpecBooks == BooksInit /\ [][BooksNext]_vars

DeleteInit ==
    /\ GroupIdle /\ SessionIdle /\ StoreStart /\ DeleteStart /\ PipeIdle
    /\ AuxIdle

SpecDelete == DeleteInit /\ [][DeleteNext]_vars

====
